---- MODULE Spec2Model ----
(***************************************************************************)
(* A model of the drama operator registry (core/docker/registry.py) and of *)
(* the container run (core/docker/run.py).                                 *)
(*                                                                         *)
(* Python values are represented as follows.  A dict is a TLA+ record      *)
(* whose DOMAIN is the set of keys that are present, so that a missing key *)
(* (a KeyError) is a key outside the DOMAIN.  A list is a sequence.  None  *)
(* is the string None below, which is no string the model uses otherwise.  *)
(* The outcome of a call is a record: [kind |-> "ok", value |-> v] when    *)
(* the call returns v, and [kind |-> <exception class>, msg |-> m] when it *)
(* raises.                                                                 *)
(***************************************************************************)
EXTENDS Naturals, Sequences, FiniteSets, TLC

VARIABLES
    catalog,      \* PersistentRegistry: the documents of database.catalog, in insertion order
    operators,    \* VolatileRegistry._operators: the dict, as <<key, value>> pairs in insertion order
    lastP,        \* the last call on the persistent registry and its outcome; for put_op also
                  \* whether the identifier was present when the call began (existed)
    lastV,        \* the same call on the volatile registry and its outcome
    putP,         \* history: per identifier, the last put_op that succeeded on the persistent registry
    putV,         \* history: per identifier, the last put_op that succeeded on the volatile registry
    ncalls,       \* number of put_op and register calls made so far
    writers,      \* concurrent clients of the persistent registry, each inside one put_op
    run,          \* one activation of DockerRun.exec: its arguments, locals and position
    containers,   \* ContainerRegistry: the documents of database.containers, in insertion order
    docker,       \* the Docker daemon: the containers created so far, the n-th having id n
    tasks,        \* the task collection of the document store (database.task), in insertion order
    clock,        \* the time, read for the updated_at of a task update
    listed,       \* the last list_all call and what it returned
    workflows,    \* the workflow collection of the document store (database.workflow)
    revokeLog,    \* the workflow ids revoke was invoked for, in call order
    mon,          \* one activation of monitor.run: its arguments, locals and position
    rev,          \* the activations of revoke, in call order: the argument, the containers
                  \* listed and the position of each
    sandbox,      \* one DockerRun object: its bindings, its directory tree, the calls made on it
    regcall,      \* one activation of register with its clone context manager: source, position
    disk,         \* the directories on the local disk: the local sources and the clones
    lastBuild,    \* the last get_dockerfile call: its arguments, the target directory, its outcome
    par,          \* the last get_parameter call: its arguments, its outcome, the text substituted
    exe,          \* one activation of execute: its arguments, locals and position, and the
                  \* history of the calls that have ended
    pcs           \* the process handle: the context of the resources of upstream tasks

regVars == <<catalog, operators, lastP, lastV, putP, putV, ncalls>>

execVars == <<run, containers, docker>>

taskVars == <<tasks, clock, listed>>

flowVars == <<tasks, clock, listed, workflows, revokeLog, mon, rev, sandbox>>

\* The variables of the operations on operators: the image build.
cloneVars == <<regcall, disk>>

\* The variables of the generic task executor.
executeVars == <<exe, pcs, par>>

opVars == <<regcall, disk, lastBuild, exe, pcs, par>>

vars == <<catalog, operators, lastP, lastV, putP, putV, ncalls, writers, run, containers, docker,
          tasks, clock, listed, workflows, revokeLog, mon, rev, sandbox, regcall, disk, lastBuild, exe, pcs, par>>

-----------------------------------------------------------------------------
(* Bounds of the model. *)

\* Calls of put_op and register per behaviour.
MaxCalls == 3

\* Commands of one exec call.
MaxCmds == 3

-----------------------------------------------------------------------------
(* Python values. *)

None == "<None>"

Ok(v) == [kind |-> "ok", value |-> v]

Raise(cls, m) == [kind |-> cls, msg |-> m]

\* dict.get(key, default)
Get(d, key, default) == IF key \in DOMAIN d THEN d[key] ELSE default

\* The values of parameters and arguments carry their Python type: t is the
\* name of the type, and the value is s for a str, n for an int, n in tenths
\* for a float (15 is 1.5), and b for a bool.
PyNone == [t |-> "NoneType", s |-> "", n |-> 0, b |-> FALSE]

PyStr(s) == [t |-> "str", s |-> s, n |-> 0, b |-> FALSE]

PyInt(n) == [t |-> "int", s |-> "", n |-> n, b |-> FALSE]

PyBool(b) == [t |-> "bool", s |-> "", n |-> 0, b |-> b]

PyFloat(tenths) == [t |-> "float", s |-> "", n |-> tenths, b |-> FALSE]

\* The empty list.
PyList == [t |-> "list", s |-> "", n |-> 0, b |-> FALSE]

\* Python truthiness of a string or None (registry.py:335, "if namespace").
Truthy(s) == s # None /\ s # ""

EmptyDict == [k \in {} |-> None]

\* The tuple (identifier, operator) that list_ops is declared to return.
Pair(identifier, op) == [identifier |-> identifier, op |-> op]

-----------------------------------------------------------------------------
(* Operator specifications: DockerOp.__init__ *)

\* The keys DockerOp.__init__ reads with doc[...]: a document without one of
\* them raises KeyError.
MissingKey(doc) ==
    LET files == Get(doc, "files", EmptyDict)
        ins   == Get(files, "inputs", <<>>)
        outs  == Get(files, "outputs", <<>>)
        pars  == Get(doc, "parameters", <<>>)
    IN  \/ ~ ({"name", "image", "commands"} \subseteq DOMAIN doc)
        \/ \E i \in DOMAIN ins : ~ ({"src", "dst"} \subseteq DOMAIN ins[i])
        \/ \E i \in DOMAIN outs : ~ ({"src", "datatype"} \subseteq DOMAIN outs[i])
        \/ \E i \in DOMAIN pars : ~ ({"name", "type"} \subseteq DOMAIN pars[i])

\* The object DockerOp(doc, version) when the constructor returns.
DockerOpObject(doc, version) ==
    LET files == Get(doc, "files", EmptyDict)
        ins   == Get(files, "inputs", <<>>)
        outs  == Get(files, "outputs", <<>>)
        pars  == Get(doc, "parameters", <<>>)
    IN  [ doc        |-> doc,
          version    |-> version,
          name       |-> doc["name"],
          image      |-> doc["image"],
          commands   |-> doc["commands"],
          env        |-> Get(doc, "env", EmptyDict),
          inputs     |-> [i \in DOMAIN ins |-> [src |-> ins[i]["src"], dst |-> ins[i]["dst"]]],
          outputs    |-> [i \in DOMAIN outs |->
                            [ src      |-> outs[i]["src"],
                              datatype |-> outs[i]["datatype"],
                              label    |-> Get(outs[i], "label", outs[i]["src"]) ]],
          parameters |-> [i \in DOMAIN pars |->
                            [ name    |-> pars[i]["name"],
                              type    |-> pars[i]["type"],
                              default |-> Get(pars[i], "default", PyNone) ]] ]

\* The outcome of evaluating DockerOp(doc=doc, version=version).
DockerOp(doc, version) ==
    IF MissingKey(doc) THEN Raise("KeyError", "missing element")
    ELSE Ok(DockerOpObject(doc, version))

-----------------------------------------------------------------------------
(* PersistentRegistry: the catalog collection of the document store. *)

\* catalog.find_one({'opId': identifier}): the position of the first matching
\* document, 0 for None.
FindOne(cat, identifier) ==
    IF \E i \in DOMAIN cat : cat[i].opId = identifier
    THEN CHOOSE i \in DOMAIN cat :
            /\ cat[i].opId = identifier
            /\ \A j \in DOMAIN cat : cat[j].opId = identifier => i <= j
    ELSE 0

\* A replace that leaves the stored document as it was.
UpdateOneKeepsOld(cat, identifier, doc) == cat

\* A replace that adds the new document beside the old one.
UpdateOneInserts(cat, identifier, doc) == Append(cat, doc)

\* catalog.update_one(query, {"$set": doc}): sets the fields of the first match.
UpdateOne(cat, identifier, doc) ==
    LET i == FindOne(cat, identifier)
    IN  IF i = 0 THEN cat ELSE [cat EXCEPT ![i] = doc]

\* An insert into a collection with a unique index on opId: a second document
\* with the identifier is refused.
InsertOneUnique(cat, doc) ==
    IF \E i \in DOMAIN cat : cat[i].opId = doc.opId THEN cat ELSE Append(cat, doc)

\* catalog.insert_one(doc): the collection carries no uniqueness constraint on
\* opId (see the comment in put_op), so the insert always adds a document.
InsertOne(cat, doc) == Append(cat, doc)

PersistentGetOp(cat, identifier) ==
    LET i == FindOne(cat, identifier)
    IN  IF i = 0 THEN Raise("ValueError", "unknown operator")
        ELSE DockerOp(cat[i].spec, cat[i].version)

RECURSIVE PersistentListFrom(_, _, _)
PersistentListFrom(cat, i, ops) ==
    IF i > Len(cat) THEN Ok(ops)
    ELSE LET op == DockerOp(cat[i].spec, cat[i].version)
         IN  IF op.kind # "ok" THEN op
             ELSE PersistentListFrom(cat, i + 1, Append(ops, Pair(cat[i].opId, op.value)))

PersistentListOps(cat) == PersistentListFrom(cat, 1, <<>>)

\* The branch put_op takes once find_one has answered (found: a document with
\* the identifier was seen).
PersistentPutAfterFind(cat, found, identifier, version, spec, replace) ==
    LET doc == [opId |-> identifier, spec |-> spec, version |-> version]
    IN  IF found
        THEN IF ~ replace
             THEN [catalog |-> cat, result |-> Raise("ValueError", "operator exists")]
             ELSE [catalog |-> UpdateOne(cat, identifier, doc), result |-> Ok(None)]
        ELSE [catalog |-> InsertOne(cat, doc), result |-> Ok(None)]

\* put_op run without interruption: [catalog, result].
PersistentPutOp(cat, identifier, version, spec, replace) ==
    PersistentPutAfterFind(cat, FindOne(cat, identifier) # 0, identifier, version, spec, replace)

-----------------------------------------------------------------------------
(* VolatileRegistry: a dict from identifier to DockerOp. *)

\* The position of key in the dict, 0 when "key not in dict".
KeyIndex(ops, identifier) ==
    IF \E i \in DOMAIN ops : ops[i][1] = identifier
    THEN CHOOSE i \in DOMAIN ops : ops[i][1] = identifier
    ELSE 0

\* dict[key] = value: an existing key keeps its place.
DictSet(ops, identifier, value) ==
    LET i == KeyIndex(ops, identifier)
    IN  IF i = 0 THEN Append(ops, <<identifier, value>>)
        ELSE [ops EXCEPT ![i] = <<identifier, value>>]

VolatileGetOp(ops, identifier) ==
    LET i == KeyIndex(ops, identifier)
    IN  IF i = 0 THEN Raise("ValueError", "unknown operator")
        ELSE Ok(ops[i][2])

\* self._operators.values()
VolatileListOps(ops) == Ok([i \in DOMAIN ops |-> ops[i][2]])

\* A put_op that stores the operator before it looks at the replace flag.
VolatilePutOpOverwrites(ops, identifier, version, spec, replace) ==
    LET op == DockerOp(spec, version)
    IN  IF op.kind # "ok" THEN [operators |-> ops, result |-> op]
        ELSE IF KeyIndex(ops, identifier) # 0 /\ ~ replace
        THEN [ operators |-> DictSet(ops, identifier, op.value),
               result |-> Raise("ValueError", "operator exists") ]
        ELSE [operators |-> DictSet(ops, identifier, op.value), result |-> Ok(None)]

\* [operators, result]
VolatilePutOp(ops, identifier, version, spec, replace) ==
    IF KeyIndex(ops, identifier) # 0 /\ ~ replace
    THEN [operators |-> ops, result |-> Raise("ValueError", "operator exists")]
    ELSE LET op == DockerOp(spec, version)
         IN  IF op.kind # "ok" THEN [operators |-> ops, result |-> op]
             ELSE [operators |-> DictSet(ops, identifier, op.value), result |-> Ok(None)]

-----------------------------------------------------------------------------
(* ContainerRegistry: the containers collection of the document store. *)

\* containers.insert_one({"workflow": workflow, "container": container})
RegistryInsert(recs, workflow, container) ==
    Append(recs, [workflow |-> workflow, container |-> container])

\* A remove that deletes nothing.
RegistryRemoveNothing(recs, workflow, container) == recs

\* containers.delete_one({"workflow": workflow, "container": container}):
\* deletes the first matching document, if there is one.
RegistryRemove(recs, workflow, container) ==
    LET doc == [workflow |-> workflow, container |-> container]
        hits == {i \in DOMAIN recs : recs[i] = doc}
    IN  IF hits = {} THEN recs
        ELSE LET first == CHOOSE i \in hits : \A j \in hits : i <= j
             IN  [k \in 1 .. Len(recs) - 1 |-> IF k < first THEN recs[k] ELSE recs[k + 1]]

-----------------------------------------------------------------------------
(* DockerRun.exec *)

\* ExecResult()
NewExecResult == [returncode |-> 0, logs |-> <<>>, exception |-> None]

\* commands if isinstance(commands, list) else [commands]
NormaliseCommands(commands) == IF commands.isList THEN commands.value ELSE <<commands.value>>

\* '\n'.join(stacktrace(ex))
StackTrace(ex) == "Traceback: " \o ex

\* The exception classes of the except clause.
CaughtErrorsWithoutAPIError == {"ContainerError", "ImageNotFound"}

CaughtErrors == {"ContainerError", "ImageNotFound", "APIError"}

\* An except clause that reports the trace alone.
HandleErrorTraceOnly(r, ex) ==
    IF ex \in CaughtErrors
    THEN [r EXCEPT !.pc = "done",
                   !.result = [returncode |-> 1, logs |-> <<StackTrace(ex)>>, exception |-> ex]]
    ELSE [r EXCEPT !.pc = "propagated", !.result.exception = ex]

\* An exception raised inside the try block: the locals after the except
\* clause and client.close(), or the exception leaving exec.
HandleError(r, ex) ==
    IF ex \in CaughtErrors
    THEN [r EXCEPT !.pc = "done",
                   !.result = [returncode |-> 1,
                               logs |-> Append(r.result.logs, StackTrace(ex)),
                               exception |-> ex]]
    ELSE [r EXCEPT !.pc = "propagated", !.result.exception = ex]

\* Every log read is appended, an empty one too.
AppendLogsAlways(result, logs) == [result EXCEPT !.logs = Append(result.logs, logs)]

\* logs = container.logs(); if logs: result.logs.append(logs.decode('utf-8'))
AppendLogs(result, logs) ==
    IF logs # "" THEN [result EXCEPT !.logs = Append(result.logs, logs)] ELSE result

\* A loop that goes on to the next command whatever the exit code.
CheckStatusNoBreak(r, status_code) ==
    IF r.i < Len(r.commands) THEN [r EXCEPT !.pc = "launch", !.i = r.i + 1]
    ELSE [r EXCEPT !.pc = "done"]

\* A loop that also ends once the workflow is marked as revoked.
CheckStatusRevoked(r, status_code) ==
    IF \/ status_code # 0
       \/ \E n \in DOMAIN workflows :
              workflows[n].id = r.workflow_id /\ workflows[n].is_revoked
    THEN [r EXCEPT !.pc = "done", !.result.returncode = status_code]
    ELSE IF r.i < Len(r.commands) THEN [r EXCEPT !.pc = "launch", !.i = r.i + 1]
    ELSE [r EXCEPT !.pc = "done"]

\* The end of the loop body: break with the exit code as returncode if it is
\* not zero, go on to the next command otherwise; after the loop,
\* client.close() and return.
CheckStatus(r, status_code) ==
    IF status_code # 0
    THEN [r EXCEPT !.pc = "done", !.result.returncode = status_code]
    ELSE IF r.i < Len(r.commands) THEN [r EXCEPT !.pc = "launch", !.i = r.i + 1]
    ELSE [r EXCEPT !.pc = "done"]

\* What a command does in its container: the exit code and the output (the
\* decoded logs of the container).
Cmds ==
    { [exit |-> 0, out |-> ""], [exit |-> 0, out |-> "hello"],
      [exit |-> 1, out |-> ""], [exit |-> 2, out |-> "error"] }

RECURSIVE SeqsUpTo(_, _)
SeqsUpTo(S, n) ==
    IF n = 0 THEN {<<>>}
    ELSE LET shorter == SeqsUpTo(S, n - 1)
         IN  shorter \cup {Append(q, x) : q \in shorter, x \in S}

\* The commands argument: a list of commands, or one command.
CommandLists == {[isList |-> TRUE, value |-> q] : q \in SeqsUpTo(Cmds, MaxCmds)}

SingleCommands == {[isList |-> FALSE, value |-> c] : c \in Cmds}

\* The exceptions of docker.errors the calls on the daemon can raise.
RunErrors == {"ContainerError", "ImageNotFound", "APIError"}

RunIdle == [pc |-> "idle"]

InitExec ==
    /\ run = RunIdle
    /\ containers = <<[workflow |-> "wf2", container |-> 99]>>
    /\ docker = <<>>

\* exec(image, commands, remove=remove, workflow_id=workflow_id,
\* registry=registry) up to the for statement, with bind_dirs left at its
\* default (False); registry tells whether a running-container registry is
\* given.
\* The volumes handed to the containers of an exec call: every bound folder
\* mounted read-write at its target below the root of the container.
Volumes(bound) ==
    [k \in DOMAIN bound |-> <<bound[k][1], [bind |-> "/" \o bound[k][2], mode |-> "rw"]>>]

\* The locals of exec (bind_dirs=False) at the for statement; bound are the
\* bindings of the sandbox at the call, and call counts the exec calls on it.
ExecLocals(commands, remove, workflow_id, registry, bound, call) ==
    LET list == NormaliseCommands(commands)
    IN  [ pc          |-> IF list = <<>> THEN "done" ELSE "launch",
          call        |-> call,
          remove      |-> remove,
          workflow_id |-> workflow_id,
          registry    |-> registry,
          volumes     |-> Volumes(bound),
          commands    |-> list,
          i           |-> 1,
          container   |-> 0,
          r           |-> 0,
          fault       |-> None,
          result      |-> NewExecResult ]

Exec(commands, remove, workflow_id, registry) ==
    /\ run.pc = "idle"
    /\ run' = ExecLocals(commands, remove, workflow_id, registry, sandbox.volumes, 1)
    /\ UNCHANGED <<opVars, containers, docker, regVars, writers, flowVars>>

\* container = client.containers.run(..., detach=True): the daemon creates
\* and starts container Len(docker) + 1.
Launch ==
    /\ run.pc = "launch"
    /\ docker' = Append(docker, [command |-> run.commands[run.i], status |-> "running",
                                 logged |-> FALSE, stopped |-> FALSE,
                                 volumes |-> run.volumes, call |-> run.call])
    /\ run' = [run EXCEPT !.pc = "insert", !.container = Len(docker) + 1]
    /\ UNCHANGED <<opVars, containers, regVars, writers, flowVars>>

\* client.containers.run raises.
LaunchFails(ex) ==
    /\ run.pc = "launch"
    /\ run' = HandleError([run EXCEPT !.fault = ex], ex)
    /\ UNCHANGED <<opVars, containers, docker, regVars, writers, flowVars>>

\* if registry: registry.insert(workflow=workflow_id, container=container.id)
Insert ==
    /\ run.pc = "insert"
    /\ containers' = IF run.registry
                     THEN RegistryInsert(containers, run.workflow_id, run.container)
                     ELSE containers
    /\ run' = [run EXCEPT !.pc = "wait"]
    /\ UNCHANGED <<opVars, docker, regVars, writers, flowVars>>

\* The exit codes of a container that was stopped (by SIGTERM or SIGKILL).
StopExitCodes == {137, 143}

\* A wait that returns at once, with the container still running.
WaitDetached ==
    /\ run.pc = "wait"
    /\ run' = [run EXCEPT !.pc = "unregister", !.r = 0]
    /\ UNCHANGED <<opVars, containers, docker, regVars, writers, flowVars>>

\* r = container.wait(): the container has exited, with the exit code of its
\* command or, if it was stopped, with the exit code of the signal.
Wait ==
    /\ run.pc = "wait"
    /\ docker' = [docker EXCEPT ![run.container].status = "exited"]
    /\ \E code \in IF docker[run.container].stopped THEN StopExitCodes
                    ELSE {docker[run.container].command.exit} :
          run' = [run EXCEPT !.pc = "unregister", !.r = code]
    /\ UNCHANGED <<opVars, containers, regVars, writers, flowVars>>

\* container.wait() raises.
WaitFails ==
    /\ run.pc = "wait"
    /\ run' = HandleError([run EXCEPT !.fault = "APIError"], "APIError")
    /\ UNCHANGED <<opVars, containers, docker, regVars, writers, flowVars>>

\* if registry: registry.remove(workflow=workflow_id, container=container.id)
Unregister ==
    /\ run.pc = "unregister"
    /\ containers' = IF run.registry
                     THEN RegistryRemove(containers, run.workflow_id, run.container)
                     ELSE containers
    /\ run' = [run EXCEPT !.pc = "logs"]
    /\ UNCHANGED <<opVars, docker, regVars, writers, flowVars>>

\* logs = container.logs(), appended to result.logs.
Logs ==
    /\ run.pc = "logs"
    /\ docker' = [docker EXCEPT ![run.container].logged = TRUE]
    /\ run' = [run EXCEPT !.pc = "remove",
                          !.result = AppendLogs(run.result, docker[run.container].command.out)]
    /\ UNCHANGED <<opVars, containers, regVars, writers, flowVars>>

\* container.logs() raises.
LogsFails ==
    /\ run.pc = "logs"
    /\ run' = HandleError([run EXCEPT !.fault = "APIError"], "APIError")
    /\ UNCHANGED <<opVars, containers, docker, regVars, writers, flowVars>>

\* if remove: container.remove(); then the check of the exit code.
Remove ==
    /\ run.pc = "remove"
    /\ docker' = IF run.remove THEN [docker EXCEPT ![run.container].status = "removed"]
                 ELSE docker
    /\ run' = CheckStatus(run, run.r)
    /\ UNCHANGED <<opVars, containers, regVars, writers, flowVars>>

\* container.remove() raises.
RemoveFails ==
    /\ run.pc = "remove"
    /\ run.remove
    /\ run' = HandleError([run EXCEPT !.fault = "APIError"], "APIError")
    /\ UNCHANGED <<opVars, containers, docker, regVars, writers, flowVars>>

NextExec ==
    \/ \E commands \in CommandLists, remove \in BOOLEAN, registry \in BOOLEAN :
            Exec(commands, remove, "wf1", registry)
    \/ \E commands \in SingleCommands, remove \in BOOLEAN, registry \in BOOLEAN :
            Exec(commands, remove, "wf1", registry)
    \/ Launch
    \/ \E ex \in RunErrors : LaunchFails(ex)
    \/ Insert
    \/ Wait
    \/ WaitFails
    \/ Unregister
    \/ Logs
    \/ LogsFails
    \/ Remove
    \/ RemoveFails

-----------------------------------------------------------------------------
(* DockerRun: the sandbox.  A path is the sequence of its parts, an         *)
(* absolute path beginning with the part "/".  The file system is the set   *)
(* of the directories and the set of the files that exist.                  *)

\* Calls of bind and copy on the sandbox per behaviour.
MaxSandboxCalls == 2

\* exec calls on the sandbox per behaviour.
MaxExecs == 2

BaseDir == <<"/", "base">>

\* Path.is_absolute()
IsAbsolute(path) == path # <<>> /\ path[1] = "/"

\* Path(self.basedir, path): an absolute second path stands for itself.
JoinPath(base, path) == IF IsAbsolute(path) THEN path ELSE base \o path

\* Path.name
PathName(path) == path[Len(path)]

\* The path and the directories above it.
Ancestors(path) == {SubSeq(path, 1, n) : n \in 1 .. Len(path)}

\* Path.parent
ParentPath(path) == SubSeq(path, 1, Len(path) - 1)

\* path is below or at root: root followed by rest.
IsBelow(path, root) == Len(path) >= Len(root) /\ SubSeq(path, 1, Len(root)) = root

\* The place of path in a copy of the tree root made at target.
Moved(path, root, target) == target \o SubSeq(path, Len(root) + 1, Len(path))

\* DockerRun(basedir=BaseDir): the base directory exists and nothing is bound.  The
\* file system holds the folders of the storage of the process (its base
\* directory /tmp, the store /src and the run folder /rundir, made by
\* FileSystemStore.__init__) with a file and a directory that can be copied.  ncalls counts
\* the calls of bind, bind_base, bind_dirs, clear, copy and erase on the sandbox, erased tells whether
\* erase has been called on it, and last keeps the last of the calls.
InitSandbox ==
    sandbox = [ basedir |-> BaseDir,
                volumes |-> <<>>,
                dirs    |-> { <<"/">>, BaseDir, <<"/", "tmp">>, <<"/", "src">>, <<"/", "src", "dir">>,
                              <<"/", "rundir">> },
                files   |-> { <<"/", "src", "names.txt">>, <<"/", "src", "dir", "f.txt">> },
                ncalls  |-> 0,
                erased  |-> FALSE,
                last    |-> [op |-> "none"] ]

\* A bind that checks the path and leaves the bindings as they are.
BindPathUnbound(sb, pathname, target, create) ==
    LET path == JoinPath(sb.basedir, pathname)
    IN  IF path \notin sb.dirs /\ ~create
        THEN [sandbox |-> sb, result |-> Raise("ValueError", "is not a directory")]
        ELSE [ sandbox |-> [sb EXCEPT !.dirs = sb.dirs \cup (IF path \in sb.dirs THEN {} ELSE Ancestors(path))],
               result |-> Ok("self") ]

\* bind(pathname, target, create): the sandbox afterwards and the outcome.
\* A path that is a file cannot be made a directory.
BindPath(sb, pathname, target, create) ==
    LET path == JoinPath(sb.basedir, pathname)
    IN  IF path \notin sb.dirs /\ ~create
        THEN [sandbox |-> sb, result |-> Raise("ValueError", "is not a directory")]
        ELSE IF path \in sb.files
        THEN [sandbox |-> sb, result |-> Raise("FileExistsError", "file exists")]
        ELSE IF Ancestors(path) \cap sb.files # {}
        THEN [sandbox |-> sb, result |-> Raise("NotADirectoryError", "not a directory")]
        ELSE [ sandbox |-> [sb EXCEPT
                            !.dirs = sb.dirs \cup (IF path \in sb.dirs THEN {} ELSE Ancestors(path)),
                            !.volumes = DictSet(sb.volumes, path, target)],
               result |-> Ok("self") ]

\* bind_base(target): self._volumes[self.basedir] = target
BindBase(sb, target) == [sb EXCEPT !.volumes = DictSet(sb.volumes, sb.basedir, target)]

\* The directory whose folders bind_dirs(pathname) binds; no pathname is the
\* empty path.
BindRoot(sb, pathname) == IF pathname # <<>> THEN JoinPath(sb.basedir, pathname) ELSE sb.basedir

\* The orders in which path.glob('*') can yield the folders of a directory:
\* the order is that of the directory on the disk, which the program does
\* not determine.
GlobOrders(sb, pathname) ==
    LET folders == {d \in sb.dirs : d # <<"/">> /\ ParentPath(d) = BindRoot(sb, pathname)}
    IN  {order \in [1 .. Cardinality(folders) -> folders] :
            \A f \in folders : \E i \in DOMAIN order : order[i] = f}

\* for f in path.glob('*'): if f.is_dir(): self._volumes[f] = f.name
RECURSIVE BindAll(_, _, _)
BindAll(volumes, order, i) ==
    IF i > Len(order) THEN volumes
    ELSE BindAll(DictSet(volumes, order[i], PathName(order[i])), order, i + 1)

\* bind_dirs(pathname), glob yielding the folders in the given order.
BindDirs(sb, pathname, order) == [sb EXCEPT !.volumes = BindAll(sb.volumes, order, 1)]

\* A copy that copies a directory whatever the recursive flag.
CopyPathAnyDirectory(sb, src, dst, recursive) ==
    LET target == JoinPath(sb.basedir, IF dst # <<>> THEN dst ELSE <<PathName(src)>>)
        parent == ParentPath(target)
        made   == [sb EXCEPT !.dirs = sb.dirs \cup Ancestors(parent)]
        file   == IF target \in made.dirs THEN target \o <<PathName(src)>> ELSE target
    IN  IF parent \in sb.files
        THEN [sandbox |-> sb, result |-> Raise("FileExistsError", "file exists")]
        ELSE IF Ancestors(parent) \cap sb.files # {}
        THEN [sandbox |-> sb, result |-> Raise("NotADirectoryError", "not a directory")]
        ELSE IF src \in sb.files
        THEN IF file \in made.dirs
             THEN [sandbox |-> made, result |-> Raise("IsADirectoryError", "is a directory")]
             ELSE [ sandbox |-> [made EXCEPT !.files = made.files \cup {file}],
                    result |-> Ok(None) ]
        ELSE IF TRUE
        THEN IF src \notin sb.dirs
             THEN [sandbox |-> made, result |-> Raise("FileNotFoundError", "no such file or directory")]
             ELSE IF target \in made.dirs \/ target \in made.files
             THEN [sandbox |-> made, result |-> Raise("FileExistsError", "file exists")]
             ELSE [ sandbox |-> [made EXCEPT
                        !.dirs = made.dirs \cup {Moved(d, src, target) : d \in {x \in made.dirs : IsBelow(x, src)}},
                        !.files = made.files \cup {Moved(f, src, target) : f \in {x \in made.files : IsBelow(x, src)}}],
                    result |-> Ok(None) ]
        ELSE [sandbox |-> made, result |-> Raise("ValueError", "recursive not specified for directory")]

\* copy(src, dst, recursive): the sandbox afterwards and the outcome.  dst is
\* None (the empty path) or a relative path.  shutil.copy2 copies a file into
\* a target that is a directory; shutil.copytree needs a target that does
\* not exist.
CopyPath(sb, src, dst, recursive) ==
    LET target == JoinPath(sb.basedir, IF dst # <<>> THEN dst ELSE <<PathName(src)>>)
        parent == ParentPath(target)
        made   == [sb EXCEPT !.dirs = sb.dirs \cup Ancestors(parent)]
        file   == IF target \in made.dirs THEN target \o <<PathName(src)>> ELSE target
    IN  IF parent \in sb.files
        THEN [sandbox |-> sb, result |-> Raise("FileExistsError", "file exists")]
        ELSE IF Ancestors(parent) \cap sb.files # {}
        THEN [sandbox |-> sb, result |-> Raise("NotADirectoryError", "not a directory")]
        ELSE IF src \in sb.files
        THEN IF file \in made.dirs
             THEN [sandbox |-> made, result |-> Raise("IsADirectoryError", "is a directory")]
             ELSE [ sandbox |-> [made EXCEPT !.files = made.files \cup {file}],
                    result |-> Ok(None) ]
        ELSE IF recursive
        THEN IF src \notin sb.dirs
             THEN [sandbox |-> made, result |-> Raise("FileNotFoundError", "no such file or directory")]
             ELSE IF target \in made.dirs \/ target \in made.files
             THEN [sandbox |-> made, result |-> Raise("FileExistsError", "file exists")]
             ELSE [ sandbox |-> [made EXCEPT
                        !.dirs = made.dirs \cup {Moved(d, src, target) : d \in {x \in made.dirs : IsBelow(x, src)}},
                        !.files = made.files \cup {Moved(f, src, target) : f \in {x \in made.files : IsBelow(x, src)}}],
                    result |-> Ok(None) ]
        ELSE [sandbox |-> made, result |-> Raise("ValueError", "recursive not specified for directory")]

\* An erase that deletes the folder above the base directory.
EraseFromParent(sb) ==
    [sb EXCEPT !.dirs = {d \in sb.dirs : ~ IsBelow(d, ParentPath(sb.basedir))},
               !.files = {f \in sb.files : ~ IsBelow(f, ParentPath(sb.basedir))}]

\* erase(): shutil.rmtree(self.basedir)
Erase(sb) ==
    [sb EXCEPT !.dirs = {d \in sb.dirs : ~ IsBelow(d, sb.basedir)},
               !.files = {f \in sb.files : ~ IsBelow(f, sb.basedir)}]

\* The exec calls made on the sandbox so far.
ExecCalls == IF run.pc = "idle" THEN 0 ELSE run.call

\* No exec call is under way: exec blocks its caller until it returns.
NotExecuting == run.pc \in {"idle", "done"}

\* DockerRun(basedir, create): the file system and the sandbox afterwards and
\* the outcome.  A base directory that is missing is made with its parents
\* when create is set; nothing is bound.
NewDockerRun(sb, basedir, create) ==
    IF basedir \in sb.dirs
    THEN [sandbox |-> [sb EXCEPT !.basedir = basedir, !.volumes = <<>>], result |-> Ok(None)]
    ELSE IF ~create
    THEN [sandbox |-> sb, result |-> Raise("ValueError", "is not a directory")]
    ELSE IF basedir \in sb.files
    THEN [sandbox |-> sb, result |-> Raise("FileExistsError", "file exists")]
    ELSE IF Ancestors(basedir) \cap sb.files # {}
    THEN [sandbox |-> sb, result |-> Raise("NotADirectoryError", "not a directory")]
    ELSE [ sandbox |-> [sb EXCEPT !.basedir = basedir, !.volumes = <<>>,
                                  !.dirs = sb.dirs \cup Ancestors(basedir)],
           result |-> Ok(None) ]

\* DockerRun(basedir, create) before any call on the sandbox: the calls that
\* follow are made on the new object or, when the constructor raises, on the
\* one there is.
SandboxNew(basedir, create) ==
    LET n == NewDockerRun(sandbox, basedir, create)
    IN  /\ run.pc = "idle"
        /\ sandbox.ncalls = 0
        /\ sandbox' = [n.sandbox EXCEPT
                        !.ncalls = sandbox.ncalls + 1,
                        !.last = [ op |-> "new", path |-> basedir, target |-> "-", create |-> create,
                                   execs |-> ExecCalls, result |-> n.result ]]
        /\ UNCHANGED <<opVars, tasks, clock, listed, workflows, revokeLog, mon, rev, regVars, writers,
                       execVars>>

\* run.bind(pathname, target, create)
SandboxBind(pathname, target, create) ==
    LET b == BindPath(sandbox, pathname, target, create)
    IN  /\ NotExecuting
        /\ sandbox.ncalls < MaxSandboxCalls
        /\ sandbox' = [b.sandbox EXCEPT
                        !.ncalls = sandbox.ncalls + 1,
                        !.last = [ op |-> "bind", path |-> JoinPath(sandbox.basedir, pathname),
                                   target |-> target, create |-> create, execs |-> ExecCalls, result |-> b.result ]]
        /\ UNCHANGED <<opVars, tasks, clock, listed, workflows, revokeLog, mon, rev, regVars, writers,
                       execVars>>

\* run.copy(src, dst, recursive)
SandboxCopy(src, dst, recursive) ==
    LET c == CopyPath(sandbox, src, dst, recursive)
    IN  /\ NotExecuting
        /\ sandbox.ncalls < MaxSandboxCalls
        /\ sandbox' = [c.sandbox EXCEPT
                        !.ncalls = sandbox.ncalls + 1,
                        !.last = [ op |-> "copy", path |-> src, target |-> "-", dst |-> dst,
                                   recursive |-> recursive, execs |-> ExecCalls,
                                   result |-> c.result ]]
        /\ UNCHANGED <<opVars, tasks, clock, listed, workflows, revokeLog, mon, rev, regVars, writers,
                       execVars>>

\* run.bind_base(target)
SandboxBindBase(target) ==
    /\ NotExecuting
    /\ sandbox.ncalls < MaxSandboxCalls
    /\ sandbox' = [BindBase(sandbox, target) EXCEPT
                    !.ncalls = sandbox.ncalls + 1,
                    !.last = [ op |-> "bind_base", path |-> sandbox.basedir, target |-> target,
                               execs |-> ExecCalls, result |-> Ok("self") ]]
    /\ UNCHANGED <<opVars, tasks, clock, listed, workflows, revokeLog, mon, rev, regVars, writers,
                   execVars>>

\* run.bind_dirs(pathname), the folders bound in one of the orders glob can
\* yield them.
SandboxBindDirs(pathname) ==
    /\ NotExecuting
    /\ sandbox.ncalls < MaxSandboxCalls
    /\ \E order \in GlobOrders(sandbox, pathname) :
            sandbox' = [BindDirs(sandbox, pathname, order) EXCEPT
                            !.ncalls = sandbox.ncalls + 1,
                            !.last = [ op |-> "bind_dirs", path |-> BindRoot(sandbox, pathname),
                                       target |-> "-", execs |-> ExecCalls,
                                       result |-> Ok("self") ]]
    /\ UNCHANGED <<opVars, tasks, clock, listed, workflows, revokeLog, mon, rev, regVars, writers,
                   execVars>>

\* run.erase(): shutil.rmtree fails when the base directory is not there.
SandboxErase ==
    /\ NotExecuting
    /\ sandbox.ncalls < MaxSandboxCalls
    /\ sandbox' = [Erase(sandbox) EXCEPT
                    !.ncalls = sandbox.ncalls + 1,
                    !.erased = TRUE,
                    !.last = [ op |-> "erase", path |-> sandbox.basedir, target |-> "-",
                               execs |-> ExecCalls,
                               result |-> IF sandbox.basedir \in sandbox.dirs THEN Ok(None)
                                          ELSE Raise("FileNotFoundError",
                                                     "no such file or directory") ]]
    /\ UNCHANGED <<opVars, tasks, clock, listed, workflows, revokeLog, mon, rev, regVars, writers,
                   execVars>>

\* run.clear(erase_files): the bindings are emptied and, with erase_files,
\* what the base directory holds is deleted; the base directory stays, and
\* glob yields nothing in a base directory that is gone.
SandboxClear(erase_files) ==
    LET below(path) == path # sandbox.basedir /\ IsBelow(path, sandbox.basedir)
    IN  /\ NotExecuting
        /\ sandbox.ncalls < MaxSandboxCalls
        /\ sandbox' = [sandbox EXCEPT
                        !.volumes = <<>>,
                        !.dirs = IF erase_files THEN {d \in sandbox.dirs : ~ below(d)} ELSE @,
                        !.files = IF erase_files THEN {f \in sandbox.files : ~ below(f)} ELSE @,
                        !.ncalls = sandbox.ncalls + 1,
                        !.last = [ op |-> "clear", path |-> sandbox.basedir, target |-> "-",
                                   erase_files |-> erase_files, execs |-> ExecCalls,
                                   result |-> Ok("self") ]]
        /\ UNCHANGED <<opVars, tasks, clock, listed, workflows, revokeLog, mon, rev, regVars, writers,
                       execVars>>

\* A further run.exec(image, commands) on the sandbox, after an exec call
\* has returned.
ExecAgain(commands, remove, workflow_id, registry) ==
    /\ run.pc = "done"
    /\ run.call < MaxExecs
    /\ run' = ExecLocals(commands, remove, workflow_id, registry, sandbox.volumes, run.call + 1)
    /\ UNCHANGED <<opVars, containers, docker, regVars, writers, flowVars>>

\* The paths given to bind and copy.
BindPaths == { <<"data">>, <<"/", "src", "dir">>, <<"/", "src", "names.txt">>, <<"/", "tmp", "out">> }

CopySources == { <<"/", "src", "names.txt">>, <<"/", "src", "dir">>, <<"/", "src", "none">> }

CopyTargets == { <<>>, <<"data">>, <<"data", "names.txt">> }

\* The directories given to bind_dirs: none (the base directory) and the
\* folder of the sources.
BindDirsPaths == { <<>>, <<"/", "src">> }

\* The base directories given to DockerRun: the one there is, a missing one,
\* a file and a path below a file.
BaseDirs == { BaseDir, <<"/", "tmp", "new">>, <<"/", "src", "names.txt">>,
              <<"/", "src", "names.txt", "run">> }

\* The command lists run in the sandbox: one command that succeeds or one
\* that fails.
SandboxCommands == { <<[exit |-> 0, out |-> "hello"]>>, <<[exit |-> 2, out |-> "error"]>> }

NextSandbox ==
    \/ \E basedir \in BaseDirs, create \in BOOLEAN : SandboxNew(basedir, create)
    \/ \E pathname \in BindPaths, create \in BOOLEAN : SandboxBind(pathname, "data", create)
    \/ \E src \in CopySources, dst \in CopyTargets, recursive \in BOOLEAN :
            SandboxCopy(src, dst, recursive)
    \/ SandboxBindBase("work")
    \/ \E pathname \in BindDirsPaths : SandboxBindDirs(pathname)
    \/ SandboxErase
    \/ \E erase_files \in BOOLEAN : SandboxClear(erase_files)
    \/ \E q \in SandboxCommands : Exec([isList |-> TRUE, value |-> q], TRUE, None, FALSE)
    \/ \E q \in SandboxCommands :
            ExecAgain([isList |-> TRUE, value |-> q], TRUE, None, FALSE)
    \/ Launch
    \/ \E ex \in RunErrors : LaunchFails(ex)
    \/ Insert
    \/ Wait
    \/ WaitFails
    \/ Unregister
    \/ Logs
    \/ LogsFails
    \/ Remove
    \/ RemoveFails

-----------------------------------------------------------------------------
(* get_dockerfile (build.py).  A line of a file that is read is the sequence *)
(* of its characters, the line terminator included; a line that is written  *)
(* or returned by the generator is a string.  A directory is a record from  *)
(* the names of its files to their lines.                                   *)

Whitespace == {" ", "\t", "\n"}

RECURSIVE StripLeft(_)
StripLeft(line) ==
    IF line # <<>> /\ Head(line) \in Whitespace THEN StripLeft(Tail(line)) ELSE line

RECURSIVE StripRight(_)
StripRight(line) ==
    IF line # <<>> /\ line[Len(line)] \in Whitespace
    THEN StripRight(SubSeq(line, 1, Len(line) - 1))
    ELSE line

\* A read that only drops the line terminator.
ReadLinesUnstripped(lines) ==
    [i \in DOMAIN lines |->
        IF lines[i] # <<>> /\ lines[i][Len(lines[i])] = "\n"
        THEN SubSeq(lines[i], 1, Len(lines[i]) - 1)
        ELSE lines[i]]

\* [line.strip() for line in f]
ReadLines(lines) == [i \in DOMAIN lines |-> StripLeft(StripRight(lines[i]))]

\* f.write(f"{line}\n") for every line: the lines of the written file.
WriteLines(lines) == lines

\* A Python generator that puts the dependency lines first.
CreateDockerfilePyFirst(spec, target, dockerfile) ==
    LET requirements == Get(spec, "requirements", <<>>)
    IN  IF requirements = <<>> THEN [target |-> target, dockerfile |-> dockerfile, error |-> None]
        ELSE [ target |-> [n \in {"requirements.txt"} |-> WriteLines(requirements)] @@ target,
               dockerfile |-> << "COPY requirements.txt requirements.txt",
                                 "RUN pip install -r requirements.txt" >> \o dockerfile,
               error |-> None ]

\* create_dockerfile_py(spec, targetdir, dockerfile): the target directory and
\* the list dockerfile afterwards.
CreateDockerfilePy(spec, target, dockerfile) ==
    LET requirements == Get(spec, "requirements", <<>>)
    IN  IF requirements = <<>> THEN [target |-> target, dockerfile |-> dockerfile, error |-> None]
        ELSE [ target |-> [n \in {"requirements.txt"} |-> WriteLines(requirements)] @@ target,
               dockerfile |-> dockerfile \o << "COPY requirements.txt requirements.txt",
                                               "RUN pip install -r requirements.txt" >>,
               error |-> None ]

\* The line written for one package.
InstallLine(pkg) ==
    "install.packages(\"" \o pkg["name"] \o "\", dependencies="
        \o (IF Get(pkg, "dependencies", TRUE) THEN "TRUE" ELSE "FALSE")
        \o ", repos=\"" \o Get(pkg, "repos", "https://cran.r-project.org") \o "\")"

\* The packages before the first one without a name.
RECURSIVE NamedPrefix(_, _)
NamedPrefix(packages, i) ==
    IF i > Len(packages) \/ "name" \notin DOMAIN packages[i] THEN <<>>
    ELSE <<InstallLine(packages[i])>> \o NamedPrefix(packages, i + 1)

\* create_dockerfile_r(spec, targetdir, dockerfile): a package without a name
\* raises KeyError after the lines of the packages before it are written.
CreateDockerfileR(spec, target, dockerfile) ==
    LET packages == Get(spec, "packages", <<>>)
        written  == NamedPrefix(packages, 1)
    IN  IF packages = <<>> THEN [target |-> target, dockerfile |-> dockerfile, error |-> None]
        ELSE IF Len(written) < Len(packages)
        THEN [ target |-> [n \in {"install_packages.R"} |-> WriteLines(written)] @@ target,
               dockerfile |-> dockerfile,
               error |-> "KeyError" ]
        ELSE [ target |-> [n \in {"install_packages.R"} |-> WriteLines(written)] @@ target,
               dockerfile |-> dockerfile \o << "COPY install_packages.R install_packages.R",
                                               "RUN Rscript install_packages.R" >>,
               error |-> None ]

PythonBaseImages == {"python:3.7", "python:3.8", "python:3.9"}

RBaseImages == {"rocker/r-ver", "rocker/tidyverse", "rocker/verse", "rocker/r-devel"}

\* f"COPY {src} {dst}" for every element of files.
CopyLines(files) == [i \in DOMAIN files |-> "COPY " \o files[i]["src"] \o " " \o files[i]["dst"]]

\* f"FROM {baseimage}": None is formatted as 'None'.
FromLine(baseimage) == "FROM " \o (IF baseimage = None THEN "None" ELSE baseimage)

\* get_dockerfile(spec, sourcedir, targetdir): the target directory afterwards
\* and the outcome.
GetDockerfile(spec, source, target) ==
    LET dockersrcfile == Get(spec, "dockerfile", "Dockerfile")
        baseimage == Get(spec, "baseImage", None)
        files == Get(spec, "files", <<>>)
        lines == <<FromLine(baseimage)>> \o CopyLines(files)
    IN  IF dockersrcfile \in DOMAIN source
        THEN [target |-> target, result |-> Ok(ReadLines(source[dockersrcfile]))]
        ELSE IF \E i \in DOMAIN files : ~ ({"src", "dst"} \subseteq DOMAIN files[i])
        THEN [target |-> target, result |-> Raise("KeyError", "missing element")]
        ELSE IF baseimage \in PythonBaseImages
        THEN LET py == CreateDockerfilePy(spec, target, lines)
             IN  [target |-> py.target, result |-> Ok(py.dockerfile)]
        ELSE IF baseimage \in RBaseImages
        THEN LET r == CreateDockerfileR(spec, target, lines)
             IN  [ target |-> r.target,
                   result |-> IF r.error # None THEN Raise(r.error, "missing element")
                              ELSE Ok(r.dockerfile) ]
        ELSE [target |-> target, result |-> Raise("ValueError", "unknown base image")]

InitBuild == lastBuild = [call |-> "none"]

\* get_dockerfile(spec=spec, sourcedir=source, targetdir=an empty directory),
\* called once.
BuildDockerfile(spec, source) ==
    LET g == GetDockerfile(spec, source, EmptyDict)
    IN  /\ lastBuild.call = "none"
        /\ lastBuild' = [ call |-> "get_dockerfile", spec |-> spec, source |-> source,
                      target |-> g.target, result |-> g.result ]
        /\ UNCHANGED <<executeVars, cloneVars, regVars, writers, execVars, flowVars>>

\* The image specifications: the product of the choices for each element.
BaseImageChoices ==
    { EmptyDict, [baseImage |-> "python:3.8"], [baseImage |-> "rocker/r-ver"],
      [baseImage |-> "ubuntu:20.04"] }

FileCode == [src |-> "code/", dst |-> "code/"]

FileData == [src |-> "data/names.txt", dst |-> "inputs/data.txt"]

FilesChoices ==
    { EmptyDict, [files |-> <<FileCode>>], [files |-> <<FileCode, FileData>>],
      [files |-> <<FileData, FileCode>>] }

RequirementsChoices ==
    { EmptyDict, [requirements |-> <<>>], [requirements |-> <<"package1", "package2">>],
      [requirements |-> <<"package2", "package1">>] }

PackageOne == [name |-> "package1", dependencies |-> FALSE]

PackageTwo == [name |-> "package2", repos |-> "repo-x"]

PackagesChoices ==
    { EmptyDict, [packages |-> <<PackageOne, PackageTwo>>],
      [packages |-> <<PackageTwo, PackageOne>>],
      [packages |-> <<PackageOne, [repos |-> "repo-x"]>>] }

DockerfileChoices == { EmptyDict, [dockerfile |-> "aDockerfile.txt"] }

\* The lines of the Dockerfiles of the source directories.
LinesPlain == << <<"A", "\n">>, <<"B", "\n">>, <<"C">> >>

LinesIndented == << <<"A", " ", "\\", "\n">>, <<" ", " ", "B", "\n">>, <<"\n">> >>

SourceDirs ==
    { EmptyDict,
      [n \in {"Dockerfile"} |-> LinesPlain],
      [n \in {"Dockerfile"} |-> LinesIndented],
      [n \in {"aDockerfile.txt"} |-> LinesPlain],
      [n \in {"Dockerfile", "aDockerfile.txt"} |->
            IF n = "Dockerfile" THEN LinesPlain ELSE LinesIndented] }

NextBuild ==
    \E base \in BaseImageChoices, files \in FilesChoices, requirements \in RequirementsChoices,
       packages \in PackagesChoices, dockerfile \in DockerfileChoices, source \in SourceDirs :
        BuildDockerfile([tag |-> "test-image"] @@ base @@ files @@ requirements @@ packages
                            @@ dockerfile, source)

-----------------------------------------------------------------------------
(* docker_build (build.py) and OpRegistry.register (registry.py).  The      *)
(* source folder of a build is the record of its files (name to lines) and  *)
(* the set of the names of its folders.                                     *)

\* Path(name).parts for the names of the files and folders of the model.
PathOf(name) ==
    CASE name = "code/" -> <<"code">>
      [] name = "data/names.txt" -> <<"data", "names.txt">>
      [] OTHER -> <<name>>

\* The paths of the files of a source folder and of its folders, those that
\* hold its files included.
SourceFiles(sourcedir) == {PathOf(f) : f \in DOMAIN sourcedir.files}

SourceFolders(sourcedir) ==
    {PathOf(d) : d \in sourcedir.folders}
        \cup UNION {{SubSeq(p, 1, n) : n \in 1 .. Len(p) - 1} : p \in SourceFiles(sourcedir)}

\* The loop over the files of docker_build from the i-th on; tree is the
\* content of the temporary folder, the paths relative to it.  shutil.copy2
\* needs the folder of its target, shutil.copytree makes the folders above
\* its target and needs a target that does not exist.
RECURSIVE CopyBuildFiles(_, _, _, _)
CopyBuildFiles(files, sourcedir, tree, i) ==
    IF i > Len(files) THEN [tree |-> tree, result |-> Ok(None)]
    ELSE LET path == PathOf(files[i]["src"])
         IN  IF path \in SourceFiles(sourcedir)
             THEN IF ParentPath(path) \in tree.dirs
                  THEN CopyBuildFiles(files, sourcedir,
                                      [tree EXCEPT !.files = tree.files \cup {path}], i + 1)
                  ELSE [tree |-> tree,
                        result |-> Raise("FileNotFoundError", "no such file or directory")]
             ELSE IF path \notin SourceFolders(sourcedir)
             THEN [tree |-> tree, result |-> Raise("FileNotFoundError", "no such file or directory")]
             ELSE IF path \in tree.dirs
             THEN [tree |-> tree, result |-> Raise("FileExistsError", "file exists")]
             ELSE CopyBuildFiles(files, sourcedir,
                    [ dirs |-> tree.dirs \cup {SubSeq(path, 1, n) : n \in 1 .. Len(path)}
                                \cup {d \in SourceFolders(sourcedir) : IsBelow(d, path)},
                      files |-> tree.files \cup {f \in SourceFiles(sourcedir) : IsBelow(f, path)} ],
                    i + 1)

\* docker_build after the loop over the files, copied being the outcome of
\* the loop and written that of get_dockerfile: the first error raised, or
\* spec['tag'].
BuildTag(spec, copied, written) ==
    IF copied.result.kind # "ok" THEN copied.result
    ELSE IF written.result.kind # "ok" THEN written.result
    ELSE IF "tag" \notin DOMAIN spec THEN Raise("KeyError", "missing element")
    ELSE Ok(spec["tag"])

\* docker_build up to its try statement, the temporary folder made: the
\* listed files are copied, the Dockerfile is written and the tag is read.
\* The outcome is the tag or the error raised.
DockerBuildPrepare(spec, sourcedir) ==
    LET files == Get(spec, "files", <<>>)
    IN  IF \E i \in DOMAIN files : ~ ({"src", "dst"} \subseteq DOMAIN files[i])
        THEN Raise("KeyError", "missing element")
        ELSE BuildTag(spec, CopyBuildFiles(files, sourcedir, [dirs |-> {<<>>}, files |-> {}], 1),
                      GetDockerfile(spec, sourcedir.files, EmptyDict))

\* What the Docker daemon answers to client.images.build.
DaemonOutcomes == {"ok", "BuildError"}

\* docker_build from its try statement on, name being the outcome of the
\* statements before it and daemon the answer of the daemon: the outcome and
\* whether the temporary folder of the build is left on the disk.  An error
\* raised before the try statement leaves the folder; the finally clause
\* removes it whatever the daemon answers.
BuildAndRemove(name, daemon) ==
    IF name.kind # "ok" THEN [result |-> name, leftover |-> TRUE]
    ELSE IF daemon # "ok"
    THEN [result |-> Raise(daemon, "build failed"), leftover |-> FALSE]
    ELSE [result |-> Ok(name.value), leftover |-> FALSE]

\* docker_build(spec, sourcedir), the daemon answering with daemon.
DockerBuild(spec, sourcedir, daemon) ==
    BuildAndRemove(DockerBuildPrepare(spec, sourcedir), daemon)

\* for obj in doc.get("dockerImages", []): docker_build(sourcedir, obj), the
\* daemon answering the build of image i with daemon[i]: the outcome and the
\* number of temporary folders left on the disk.
RECURSIVE BuildImages(_, _, _, _)
RECURSIVE BuildNext(_, _, _, _, _)
BuildImages(images, sourcedir, daemon, i) ==
    IF i > Len(images) THEN [result |-> Ok(None), leftover |-> 0]
    ELSE BuildNext(images, sourcedir, daemon, i, DockerBuild(images[i], sourcedir, daemon[i]))

\* The loop after the build b of image i: an error of the build leaves the
\* loop.
BuildNext(images, sourcedir, daemon, i, b) ==
    IF b.result.kind # "ok"
    THEN [result |-> b.result, leftover |-> IF b.leftover THEN 1 ELSE 0]
    ELSE BuildImages(images, sourcedir, daemon, i + 1)

\* op_id = f"{namespace}.{obj['name']}" if namespace else obj['name']
OpId(namespace, obj) ==
    IF "name" \notin DOMAIN obj THEN Raise("KeyError", "missing element")
    ELSE IF Truthy(namespace) THEN Ok(namespace \o "." \o obj["name"])
    ELSE Ok(obj["name"])

\* The loop over doc.get("operators", []) on the persistent registry, from the
\* i-th operator on: [catalog, result, registered], where registered is the
\* local list registered_ops when the loop is left.
RECURSIVE PersistentRegisterFrom(_, _, _, _, _, _, _)
PersistentRegisterFrom(cat, ops, i, namespace, version, replace, registered) ==
    IF i > Len(ops) THEN [catalog |-> cat, result |-> Ok(registered), registered |-> registered]
    ELSE LET id == OpId(namespace, ops[i])
         IN  IF id.kind # "ok"
             THEN [catalog |-> cat, result |-> id, registered |-> registered]
             ELSE LET p == PersistentPutOp(cat, id.value, version, ops[i], replace)
                  IN  IF p.result.kind # "ok"
                      THEN [catalog |-> p.catalog, result |-> p.result, registered |-> registered]
                      ELSE PersistentRegisterFrom(p.catalog, ops, i + 1, namespace, version,
                                                  replace, Append(registered, id.value))

\* The same loop on the volatile registry: [operators, result, registered].
RECURSIVE VolatileRegisterFrom(_, _, _, _, _, _, _)
VolatileRegisterFrom(reg, ops, i, namespace, version, replace, registered) ==
    IF i > Len(ops) THEN [operators |-> reg, result |-> Ok(registered), registered |-> registered]
    ELSE LET id == OpId(namespace, ops[i])
         IN  IF id.kind # "ok"
             THEN [operators |-> reg, result |-> id, registered |-> registered]
             ELSE LET p == VolatilePutOp(reg, id.value, version, ops[i], replace)
                  IN  IF p.result.kind # "ok"
                      THEN [operators |-> p.operators, result |-> p.result, registered |-> registered]
                      ELSE VolatileRegisterFrom(p.operators, ops, i + 1, namespace, version,
                                                replace, Append(registered, id.value))

\* register after the loop over the images, built being the outcome of the
\* loop: an error of a build is raised before any operator is put.
PersistentRegisterOps(cat, doc, replace, built) ==
    LET done == PersistentRegisterFrom(cat, Get(doc, "operators", <<>>), 1, Get(doc, "namespace", None),
                                       Get(doc, "version", None), replace, <<>>)
    IN  IF built.result.kind # "ok"
        THEN [catalog |-> cat, result |-> built.result, registered |-> <<>>, leftover |-> built.leftover]
        ELSE [ catalog |-> done.catalog, result |-> done.result, registered |-> done.registered,
               leftover |-> 0 ]

\* A register that builds the images after the loop over the operators.
PersistentRegisterBuildsLast(cat, doc, replace, sourcedir, daemon) ==
    LET done == PersistentRegisterFrom(cat, Get(doc, "operators", <<>>), 1, Get(doc, "namespace", None),
                                       Get(doc, "version", None), replace, <<>>)
        built == BuildImages(Get(doc, "dockerImages", <<>>), sourcedir, daemon, 1)
    IN  IF done.result.kind = "ok" /\ built.result.kind # "ok"
        THEN [ catalog |-> done.catalog, result |-> built.result, registered |-> done.registered,
               leftover |-> built.leftover ]
        ELSE [ catalog |-> done.catalog, result |-> done.result, registered |-> done.registered,
               leftover |-> 0 ]

\* register(source, replace) on the persistent registry, doc being the parsed
\* specification file of the source and sourcedir its folder:
\* [catalog, result, registered, leftover].
PersistentRegister(cat, doc, replace, sourcedir, daemon) ==
    PersistentRegisterOps(cat, doc, replace,
                          BuildImages(Get(doc, "dockerImages", <<>>), sourcedir, daemon, 1))

\* The same on the volatile registry: [operators, result, registered,
\* leftover].
VolatileRegisterOps(reg, doc, replace, built) ==
    LET done == VolatileRegisterFrom(reg, Get(doc, "operators", <<>>), 1, Get(doc, "namespace", None),
                                     Get(doc, "version", None), replace, <<>>)
    IN  IF built.result.kind # "ok"
        THEN [operators |-> reg, result |-> built.result, registered |-> <<>>, leftover |-> built.leftover]
        ELSE [ operators |-> done.operators, result |-> done.result, registered |-> done.registered,
               leftover |-> 0 ]

VolatileRegister(reg, doc, replace, sourcedir, daemon) ==
    VolatileRegisterOps(reg, doc, replace,
                        BuildImages(Get(doc, "dockerImages", <<>>), sourcedir, daemon, 1))

-----------------------------------------------------------------------------
(* The task collection and the workflow status (manager.py). *)

\* The values of TaskStatus.
STATUS_PENDING == "PENDING"

STATUS_RUNNING == "RUNNING"

STATUS_DONE == "DONE"

STATUS_FAILED == "FAILED"

TaskStatuses == {STATUS_PENDING, STATUS_RUNNING, STATUS_DONE, STATUS_FAILED}

\* The tasks of the workflows that ran before: a workflow with one task,
\* which is done.
InitTasks ==
    /\ tasks = << [ id |-> "t0", name |-> "Earlier", parent |-> "wf0", status |-> STATUS_DONE,
                    message |-> None, updated_at |-> 0 ] >>
    /\ clock = 1
    /\ listed = [call |-> "none"]

\* Tasks of one workflow request.
MaxTasks == 3

\* The ids and names of the tasks of the request, by position.
TaskIds == <<"t1", "t2", "t3", "t4">>

TaskNames == <<"A", "B", "C", "D">>

\* TaskManager.create_or_update_from_id: task.update({"id": task_id},
\* {"$set": task.dict(exclude_unset=True)}, upsert=True).  The fields that
\* are set are the id and the extra fields; the first document with the id
\* gets them, and a new document made of them is inserted if there is none.
CreateOrUpdateFromId(coll, task_id, extra_fields) ==
    LET set == extra_fields @@ [id |-> task_id]
        hits == {i \in DOMAIN coll : coll[i].id = task_id}
    IN  IF hits = {} THEN Append(coll, set)
        ELSE LET first == CHOOSE i \in hits : \A j \in hits : i <= j
             IN  [coll EXCEPT ![first] = set @@ coll[first]]

\* TaskManager.find({"parent": parent}): the documents with that parent, in
\* the order of the collection.
RECURSIVE TaskFindFrom(_, _, _)
TaskFindFrom(coll, parent, i) ==
    IF i > Len(coll) THEN <<>>
    ELSE IF "parent" \in DOMAIN coll[i] /\ coll[i].parent = parent
         THEN <<coll[i]>> \o TaskFindFrom(coll, parent, i + 1)
         ELSE TaskFindFrom(coll, parent, i + 1)

TaskFind(coll, parent) == TaskFindFrom(coll, parent, 1)

\* A status function that looks for a failed task first and reports every
\* other mix of states as running.
GetStatusFailedFirst(values) ==
    IF STATUS_FAILED \in values THEN STATUS_FAILED
    ELSE IF values = {STATUS_DONE} THEN STATUS_DONE
    ELSE STATUS_RUNNING

\* get_status(values): the status of a workflow from the set of the states
\* of its tasks.
GetStatus(values) ==
    IF Cardinality(values) = 1 THEN CHOOSE st \in values : TRUE
    ELSE IF STATUS_FAILED \in values THEN STATUS_FAILED
    ELSE STATUS_RUNNING

\* The keys of workflows (a defaultdict) in insertion order: the parents of
\* the documents i .. Len(coll) that are not in seen.
RECURSIVE WorkflowKeys(_, _, _)
WorkflowKeys(coll, i, seen) ==
    IF i > Len(coll) THEN <<>>
    ELSE IF coll[i].parent \in seen THEN WorkflowKeys(coll, i + 1, seen)
    ELSE <<coll[i].parent>> \o WorkflowKeys(coll, i + 1, seen \cup {coll[i].parent})

\* max(list) of a non-empty list of timestamps.
Max(S) == CHOOSE x \in S : \A y \in S : y <= x

\* The oldest timestamp.
Min(S) == CHOOSE x \in S : \A y \in S : x <= y

\* The timestamp of the task that was updated first.
LastUpdateOldest(coll, key) == Min({coll[i].updated_at : i \in {j \in DOMAIN coll : coll[j].parent = key}})

\* last_update of a descriptor: max([ts for _, ts in value]).
LastUpdate(coll, key) == Max({coll[i].updated_at : i \in {j \in DOMAIN coll : coll[j].parent = key}})

\* WorkflowDescriptor of the workflow key.
Descriptor(coll, key) ==
    [ workflow_id |-> key,
      status      |-> GetStatus({coll[i].status : i \in {j \in DOMAIN coll : coll[j].parent = key}}),
      last_update |-> LastUpdate(coll, key) ]

\* The second loop of list_all: the descriptors of keys[i ..] that pass the
\* filter.
RECURSIVE ListFrom(_, _, _, _)
ListFrom(coll, keys, active, i) ==
    IF i > Len(keys) THEN <<>>
    ELSE LET wf == Descriptor(coll, keys[i])
         IN  IF ~active \/ wf.status = STATUS_RUNNING
             THEN <<wf>> \o ListFrom(coll, keys, active, i + 1)
             ELSE ListFrom(coll, keys, active, i + 1)

\* WorkflowManager.list_all(active).  A document without parent, status or
\* updated_at is a KeyError in the first loop.
ListAll(coll, active) ==
    IF \E i \in DOMAIN coll : ~({"parent", "status", "updated_at"} \subseteq DOMAIN coll[i])
    THEN Raise("KeyError", "missing element")
    ELSE Ok(ListFrom(coll, WorkflowKeys(coll, 1, {}), active, 1))

\* The place of the task with the id in the collection.
TaskIndex(task_id) == CHOOSE i \in DOMAIN tasks : tasks[i].id = task_id

Persisted(task_id) == \E i \in DOMAIN tasks : tasks[i].id = task_id

HasStatus(task_id, status) == Persisted(task_id) /\ tasks[TaskIndex(task_id)].status = status

\* The workflow document with the id is in the collection.
Submitted(wf) == \E i \in DOMAIN workflows : workflows[i].id = wf

\* The workflow is marked revoked.
IsRevoked(wf) == \E i \in DOMAIN workflows : workflows[i].id = wf /\ workflows[i].is_revoked

\* The workflow document of a request of n tasks: its tasks are references
\* to the tasks of the request, in the order of the request.
WorkflowOf(n) == [is_revoked |-> FALSE, tasks |-> SubSeq(TaskIds, 1, n)]

\* execute(workflow) for a request of n tasks: the request is handed to the
\* dispatcher and the handle of the workflow, wf1, is returned.  The tasks
\* are persisted when they are updated, by TaskPersist.
ExecuteWorkflow(n) ==
    /\ ~Submitted("wf1")
    /\ mon.pc = "idle"
    /\ workflows' = CreateOrUpdateFromId(workflows, "wf1", WorkflowOf(n))
    /\ clock' = clock + 1
    /\ UNCHANGED <<opVars, tasks, listed, revokeLog, mon, rev, sandbox, regVars, writers, execVars>>

\* The workflows whose request holds the task, with the place of the task in
\* the request.
RequestsOf(task_id) ==
    { <<w, i>> \in (DOMAIN workflows) \X (1 .. MaxTasks) :
        /\ "tasks" \in DOMAIN workflows[w]
        /\ i \in DOMAIN workflows[w].tasks
        /\ workflows[w].tasks[i] = task_id }

\* The first update of a task of a submitted request: the dispatcher
\* persists it, PENDING.  The tasks of a request are persisted one by one,
\* in any order, before or after execute has returned.
TaskPersist(task_id) ==
    /\ RequestsOf(task_id) # {}
    /\ ~Persisted(task_id)
    /\ LET r == CHOOSE q \in RequestsOf(task_id) : TRUE
       IN  tasks' = CreateOrUpdateFromId(tasks, task_id,
                        [ name |-> TaskNames[r[2]], parent |-> workflows[r[1]].id,
                          status |-> STATUS_PENDING, message |-> None, updated_at |-> clock ])
    /\ clock' = clock + 1
    /\ UNCHANGED <<opVars, listed, workflows, revokeLog, mon, rev, sandbox, regVars, writers, execVars>>

\* A worker takes the task up: the task is running.  The dispatcher starts
\* no task of a revoked workflow, the revocation task excepted.
TaskStart(task_id) ==
    /\ HasStatus(task_id, STATUS_PENDING)
    /\ LET t == tasks[TaskIndex(task_id)]
       IN  ~IsRevoked(t.parent) \/ t.name = "RevokeExecution"
    /\ tasks' = CreateOrUpdateFromId(tasks, task_id,
                    [status |-> STATUS_RUNNING, updated_at |-> clock])
    /\ clock' = clock + 1
    /\ UNCHANGED <<opVars, listed, workflows, revokeLog, mon, rev, sandbox, regVars, writers, execVars>>

\* The task has run to its end: it is done.
TaskSucceed(task_id) ==
    /\ HasStatus(task_id, STATUS_RUNNING)
    /\ tasks' = CreateOrUpdateFromId(tasks, task_id,
                    [status |-> STATUS_DONE, message |-> "ok", updated_at |-> clock])
    /\ clock' = clock + 1
    /\ UNCHANGED <<opVars, listed, workflows, revokeLog, mon, rev, sandbox, regVars, writers, execVars>>

\* The task has raised: it is failed, the result message being the log text.
TaskFail(task_id) ==
    /\ HasStatus(task_id, STATUS_RUNNING)
    /\ tasks' = CreateOrUpdateFromId(tasks, task_id,
                    [ status |-> STATUS_FAILED, message |-> "error in " \o task_id,
                      updated_at |-> clock ])
    /\ clock' = clock + 1
    /\ UNCHANGED <<opVars, listed, workflows, revokeLog, mon, rev, sandbox, regVars, writers, execVars>>

\* The value of the clock (it counts the updates of the dispatcher and the
\* workers) below which a caller updates a task by a call of its own.
MaxClock == 5

\* TaskManager().create_or_update_from_id(task_id, status=status) by any
\* caller: the id and the status are the fields set, and the status is set
\* as given, whatever the status persisted.
UpdateTask(task_id, status) ==
    /\ clock < MaxClock
    /\ tasks' = CreateOrUpdateFromId(tasks, task_id, [status |-> status])
    /\ UNCHANGED <<opVars, clock, listed, workflows, revokeLog, mon, rev, sandbox, regVars, writers,
                   execVars>>

\* list_all(active=active)
ListWorkflows(active) ==
    /\ listed' = [ call |-> "list_all", active |-> active, docs |-> tasks,
                    result |-> ListAll(tasks, active) ]
    /\ UNCHANGED <<opVars, tasks, clock, workflows, revokeLog, mon, rev, sandbox, regVars, writers, execVars>>

\* Calls of revoke per behaviour.
MaxRevokes == 2

\* The ids of the revocation tasks, by call.
RevokeIds == <<"r1", "r2", "r3", "r4">>

\* The ids a task can have: those of the request and those of the revocation
\* tasks.
AllTaskIds == {TaskIds[i] : i \in 1 .. MaxTasks} \cup {RevokeIds[i] : i \in 1 .. MaxRevokes + 1}

\* The ids of the tasks persisted.
PersistedIds == {tasks[i].id : i \in DOMAIN tasks}

\* A workflow is submitted, its tasks are persisted and taken through their
\* states by the workers, and the workflows are listed.
NextTasks ==
    \/ \E n \in 0 .. MaxTasks : ExecuteWorkflow(n)
    \/ \E id \in AllTaskIds : TaskPersist(id)
    \/ \E id \in AllTaskIds : TaskStart(id)
    \/ \E id \in AllTaskIds : TaskSucceed(id)
    \/ \E id \in AllTaskIds : TaskFail(id)
    \/ \E active \in BOOLEAN : ListWorkflows(active)

\* Tasks of the request of a workflow whose tasks a caller updates.
MaxUpdateTasks == 2

\* A workflow is submitted and its tasks are persisted and taken through
\* their states by the workers; beside them a caller updates the status of
\* a persisted task by a call of its own.
NextUpdate ==
    \/ \E n \in 1 .. MaxUpdateTasks : ExecuteWorkflow(n)
    \/ \E id \in AllTaskIds : TaskPersist(id)
    \/ \E id \in PersistedIds, status \in TaskStatuses : UpdateTask(id, status)
    \/ \E id \in AllTaskIds : TaskStart(id)
    \/ \E id \in AllTaskIds : TaskSucceed(id)
    \/ \E id \in AllTaskIds : TaskFail(id)

InitFlow ==
    /\ workflows = <<[id |-> "wf0", is_revoked |-> FALSE]>>
    /\ revokeLog = <<>>
    /\ mon = [pc |-> "idle"]
    /\ rev = <<>>
    /\ InitSandbox

-----------------------------------------------------------------------------
(* revoke(workflow_id): the workflow is marked revoked, a revocation task   *)
(* is recorded, and a stop request is issued for every container the        *)
(* running-container registry lists for the workflow, whose record is       *)
(* deleted.                                                                 *)

\* A listing of every container of the registry, whatever its workflow.
RECURSIVE FindAllWorkflows(_, _)
FindAllWorkflows(recs, workflow) ==
    IF recs = <<>> THEN <<>>
    ELSE <<recs[1].container>> \o FindAllWorkflows(Tail(recs), workflow)

\* ContainerRegistry.find_all(workflow): the containers of the records of the
\* workflow, in the order of the collection.
RECURSIVE FindAll(_, _)
FindAll(recs, workflow) ==
    IF recs = <<>> THEN <<>>
    ELSE IF recs[1].workflow = workflow
         THEN <<recs[1].container>> \o FindAll(Tail(recs), workflow)
         ELSE FindAll(Tail(recs), workflow)

\* A stop request for the container: a running container is stopped, and a
\* container that has finished or that the daemon no longer knows is left as
\* it is, without an error.
StopContainer(d, id) ==
    IF id \in DOMAIN d /\ d[id].status = "running"
    THEN [d EXCEPT ![id].stopped = TRUE]
    ELSE d

\* The revocation task of the n-th revoke call, recorded for the workflow.
RecordRevocation(coll, workflow, n, now) ==
    CreateOrUpdateFromId(coll, RevokeIds[n],
        [ name |-> "RevokeExecution", parent |-> workflow, status |-> STATUS_PENDING,
          message |-> None, updated_at |-> now ])

\* revoke(workflow) is entered by caller: the workflow is marked, the
\* revocation task recorded and the registry scanned.  records and running
\* keep what the registry held and which containers were running at the
\* scan.  The callers are separate processes: a call is entered whether or
\* not another one is under way, and has its own activation.
RevokeEnter(workflow, caller) ==
    /\ revokeLog' = Append(revokeLog, workflow)
    /\ workflows' = CreateOrUpdateFromId(workflows, workflow, [is_revoked |-> TRUE])
    /\ tasks' = RecordRevocation(tasks, workflow, Len(revokeLog) + 1, clock)
    /\ clock' = clock + 1
    /\ rev' = Append(rev,
                [ pc |-> "stopping", workflow |-> workflow, caller |-> caller,
                  records |-> containers, ids |-> FindAll(containers, workflow), i |-> 1,
                  running |-> {id \in DOMAIN docker : docker[id].status = "running"},
                  stops |-> <<>>, result |-> None ])

\* revoke(workflow) is called by a client, as the command line does; the
\* call that run makes is PollRevoke.
RevokeCall(workflow) ==
    /\ Len(revokeLog) < MaxRevokes
    /\ RevokeEnter(workflow, "client")
    /\ UNCHANGED <<opVars, listed, mon, sandbox, regVars, writers, execVars>>

\* The k-th revoke call stops the next container it has listed and deletes
\* its record.
RevokeStop(k) ==
    /\ k \in DOMAIN rev
    /\ rev[k].pc = "stopping"
    /\ rev[k].i <= Len(rev[k].ids)
    /\ docker' = StopContainer(docker, rev[k].ids[rev[k].i])
    /\ containers' = RegistryRemove(containers, rev[k].workflow, rev[k].ids[rev[k].i])
    /\ rev' = [rev EXCEPT ![k].i = rev[k].i + 1,
                          ![k].stops = Append(rev[k].stops, rev[k].ids[rev[k].i])]
    /\ UNCHANGED <<opVars, run, tasks, clock, listed, workflows, revokeLog, mon, sandbox, regVars, writers>>

\* The k-th revoke call returns.
RevokeReturn(k) ==
    /\ k \in DOMAIN rev
    /\ rev[k].pc = "stopping"
    /\ rev[k].i > Len(rev[k].ids)
    /\ rev' = [rev EXCEPT ![k].pc = "done", ![k].result = "ok"]
    /\ UNCHANGED <<opVars, tasks, clock, listed, workflows, revokeLog, mon, sandbox, regVars, writers,
                   execVars>>

\* Commands of the exec call that runs beside revoke.
MaxRevokeCmds == 2

NextRevoke ==
    \/ \E q \in SeqsUpTo(Cmds, MaxRevokeCmds), registry \in BOOLEAN :
            Exec([isList |-> TRUE, value |-> q], TRUE, "wf1", registry)
    \/ Launch
    \/ \E ex \in RunErrors : LaunchFails(ex)
    \/ Insert
    \/ Wait
    \/ WaitFails
    \/ Unregister
    \/ Logs
    \/ LogsFails
    \/ Remove
    \/ RemoveFails
    \/ \E wf \in {"wf1", "wf2"} : RevokeCall(wf)
    \/ \E k \in 1 .. MaxRevokes : RevokeStop(k)
    \/ \E k \in 1 .. MaxRevokes : RevokeReturn(k)

-----------------------------------------------------------------------------
(* monitor.run(workflow, poll_interval, verbose, raise_error) *)

\* Polls of one run call.
MaxPolls == 3

\* Tasks of the request of a monitored workflow.
MaxMonTasks == 2

\* The names of the tasks read: [t.name for t in tasks].
TaskNamesOf(found) == {found[i].name : i \in DOMAIN found}

\* A test that never finds the workflow revoked.
NeedsRevokeAlways(found) == TRUE

\* "RevokeExecution" not in [t.name for t in tasks]
NeedsRevoke(found) == "RevokeExecution" \notin TaskNamesOf(found)

\* A loop that raises the error of a failed task before it revokes.
RECURSIVE MonitorLoopRaisesFirst(_, _, _, _)
MonitorLoopRaisesFirst(found, i, is_done, raise_error) ==
    IF i > Len(found)
    THEN [kind |-> "end", is_done |-> is_done, revoke |-> FALSE, message |-> None]
    ELSE IF found[i].status = STATUS_FAILED
    THEN IF raise_error
         THEN [kind |-> "raise", is_done |-> is_done, revoke |-> FALSE, message |-> found[i].message]
         ELSE [ kind |-> "break", is_done |-> is_done, revoke |-> NeedsRevoke(found),
                message |-> None ]
    ELSE IF found[i].status # STATUS_DONE
    THEN MonitorLoopRaisesFirst(found, i + 1, FALSE, raise_error)
    ELSE MonitorLoopRaisesFirst(found, i + 1, is_done, raise_error)

\* The for loop over the tasks read, from task i on, is_done being the flag
\* so far: how the loop ends (at the end of the list, by break or by raise),
\* the flag, whether revoke is called and the message of the error raised.
RECURSIVE MonitorLoop(_, _, _, _)
MonitorLoop(found, i, is_done, raise_error) ==
    IF i > Len(found)
    THEN [kind |-> "end", is_done |-> is_done, revoke |-> FALSE, message |-> None]
    ELSE IF found[i].status = STATUS_FAILED
    THEN IF raise_error
         THEN [ kind |-> "raise", is_done |-> is_done, revoke |-> NeedsRevoke(found),
                message |-> found[i].message ]
         ELSE [ kind |-> "break", is_done |-> is_done, revoke |-> NeedsRevoke(found),
                message |-> None ]
    ELSE IF found[i].status # STATUS_DONE
    THEN MonitorLoop(found, i + 1, FALSE, raise_error)
    ELSE MonitorLoop(found, i + 1, is_done, raise_error)

\* run(workflow, raise_error=raise_error) for a request of n tasks, up to the
\* while statement: wf = execute(workflow), which hands the request to the
\* dispatcher and returns the handle of the workflow.
MonitorRun(n, raise_error) ==
    /\ mon.pc = "idle"
    /\ ~Submitted("wf1")
    /\ workflows' = CreateOrUpdateFromId(workflows, "wf1", WorkflowOf(n))
    /\ clock' = clock + 1
    /\ mon' = [ pc |-> "sleep", wf |-> "wf1", n |-> n, raise_error |-> raise_error,
                polls |-> 0, tasks |-> <<>>, revoked |-> 0, call |-> 0,
                loop |-> [kind |-> "end", is_done |-> FALSE, revoke |-> FALSE, message |-> None],
                result |-> None, error |-> None ]
    /\ UNCHANGED <<opVars, tasks, listed, revokeLog, rev, sandbox, regVars, writers, execVars>>

\* The round of the while loop ends after the for loop: run raises, returns
\* the tasks it read or goes on with the next round.
MonitorEnd(m) ==
    [m EXCEPT !.pc = IF m.loop.kind = "raise" THEN "raised"
                     ELSE IF m.loop.is_done THEN "returned" ELSE "sleep",
              !.error = m.loop.message,
              !.result = IF m.loop.kind # "raise" /\ m.loop.is_done THEN m.tasks ELSE None]

\* One round of the while loop up to the call of revoke, or to its end when
\* revoke is not called: the sleep is over, the tasks of the workflow are
\* read and the for loop runs on the list read.
Poll ==
    /\ mon.pc = "sleep"
    /\ mon.polls < MaxPolls
    /\ LET found == TaskFind(tasks, mon.wf)
           read  == [mon EXCEPT !.polls = mon.polls + 1, !.tasks = found,
                                !.loop = MonitorLoop(found, 1, TRUE, mon.raise_error)]
       IN  mon' = IF read.loop.revoke THEN [read EXCEPT !.pc = "revoke"] ELSE MonitorEnd(read)
    /\ UNCHANGED <<opVars, tasks, clock, listed, workflows, revokeLog, rev, sandbox, regVars, writers,
                   execVars>>

\* revoke(wf.id) is called by run, on the list it read before; call is the
\* number of that call among the revoke calls.
PollRevoke ==
    /\ mon.pc = "revoke"
    /\ RevokeEnter(mon.wf, "run")
    /\ mon' = [mon EXCEPT !.pc = "revoking", !.revoked = mon.revoked + 1, !.call = Len(rev) + 1]
    /\ UNCHANGED <<opVars, listed, sandbox, regVars, writers, execVars>>

\* The revoke call of run has returned: the round ends.
PollResume ==
    /\ mon.pc = "revoking"
    /\ rev[mon.call].pc = "done"
    /\ mon' = MonitorEnd(mon)
    /\ UNCHANGED <<opVars, tasks, clock, listed, workflows, revokeLog, rev, sandbox, regVars, writers,
                   execVars>>

\* Calls of revoke by a client beside one run call.
MaxClientRevokes == 1

\* A client revokes the workflow of run.
ClientRevoke ==
    /\ mon.pc # "idle"
    /\ Cardinality({c \in DOMAIN rev : rev[c].caller = "client"}) < MaxClientRevokes
    /\ RevokeCall(mon.wf)

\* The steps of one run call, of the dispatcher and the workers and of a
\* client beside it.  No container runs meanwhile: the revoke calls find
\* nothing to stop.
NextMonitor ==
    \/ \E n \in 0 .. MaxMonTasks, raise_error \in BOOLEAN : MonitorRun(n, raise_error)
    \/ \E id \in AllTaskIds : TaskPersist(id)
    \/ Poll
    \/ PollRevoke
    \/ PollResume
    \/ ClientRevoke
    \/ \E k \in 1 .. MaxRevokes + 1 : RevokeReturn(k)
    \/ \E id \in AllTaskIds : TaskStart(id)
    \/ \E id \in AllTaskIds : TaskSucceed(id)
    \/ \E id \in AllTaskIds : TaskFail(id)

-----------------------------------------------------------------------------
(* The inputs of the registry calls. *)

DocHello == [name |-> "Hello", image |-> "python:3.9", commands |-> <<"python hello.py">>]

DocHelloAlt ==
    [ name |-> "Hello", image |-> "alpine", commands |-> <<"echo $greeting">>,
      parameters |-> <<[name |-> "greeting", type |-> "str", default |-> PyStr("Hello")]>> ]

DocBye == [name |-> "Bye", image |-> "python:3.9", commands |-> <<"python bye.py">>]

\* A document without the mandatory element 'commands'.
DocNoCommands == [name |-> "Hello", image |-> "python:3.9"]

\* A document without the mandatory element 'name'.
DocNoName == [image |-> "python:3.9", commands |-> <<"python hello.py">>]

PutIds == {"Hello", "demo.Hello"}

PutVersions == {"0.1.0", "0.2.0"}

PutDocs == {DocHello, DocHelloAlt, DocNoCommands}

\* The identifiers a call of the model can store under.
AllIds == {"Hello", "Bye", "demo.Hello", "demo.Bye"}

\* The identifiers execute is called with: the operators of its manifest and
\* one that is not registered.
ExecuteOps == {"Producer", "Consumer", "FromStore", "FromGone", "FromRundir", "FromContext", "FromUrl", "Unknown"}

ImagePython == [tag |-> "hello:latest", baseImage |-> "python:3.9", requirements |-> <<"pandas">>]

ImageUnknown == [tag |-> "hello:latest", baseImage |-> "ubuntu:20.04"]

ImageFiles == [tag |-> "code:latest", baseImage |-> "python:3.9", files |-> <<FileCode>>]

ImageNoPackageName == [tag |-> "r:latest", baseImage |-> "rocker/r-ver",
                       packages |-> <<[repos |-> "repo-x"]>>]

\* Parsed specification files (drama.yaml).
Manifests ==
    { [operators |-> <<DocHello>>],
      [namespace |-> "demo", version |-> "0.1.0", operators |-> <<DocHello, DocBye>>],
      [namespace |-> "", version |-> "0.1.0", operators |-> <<DocBye>>],
      [namespace |-> "demo", operators |-> <<DocHello, DocHelloAlt>>],
      [namespace |-> "demo", version |-> "0.2.0", operators |-> <<DocBye, DocNoCommands>>],
      [version |-> "0.2.0", operators |-> <<DocBye, DocNoName>>],
      [namespace |-> "demo", operators |-> <<DocHello>>, dockerImages |-> <<ImageUnknown>>],
      [namespace |-> "demo", version |-> "0.2.0", operators |-> <<DocBye>>,
       dockerImages |-> <<ImagePython>>],
      [operators |-> <<DocHello>>, dockerImages |-> <<ImageFiles, ImageNoPackageName>>],
      [version |-> "0.1.0"] }

\* The source folders of the manifests: an empty one, one with the folder
\* code, and one with the folder code and a Dockerfile.
FolderEmpty == [files |-> EmptyDict, folders |-> {}]

FolderCode == [files |-> EmptyDict, folders |-> {"code"}]

FolderDockerfile == [files |-> [n \in {"Dockerfile"} |-> LinesPlain], folders |-> {"code"}]

RegisterFolders == {FolderEmpty, FolderCode, FolderDockerfile}

\* The source folders a manifest is registered from: the content of the
\* folder is read by docker_build only.
FoldersFor(doc) == IF "dockerImages" \in DOMAIN doc THEN RegisterFolders ELSE {FolderEmpty}

\* The answers of the daemon to the builds of the images of a manifest.
DaemonAnswers(doc) == [DOMAIN Get(doc, "dockerImages", <<>>) -> DaemonOutcomes]

-----------------------------------------------------------------------------
(* The registry calls.  Every call is applied to both registries, which so  *)
(* see the same sequence of calls.                                          *)

NoCall == [call |-> [call |-> "none"]]

NoPut == [stored |-> FALSE]

\* History: the put_op calls of one register call that succeeded are those of
\* the first Len(registered) operators of the manifest.
RECURSIVE RecordPuts(_, _, _, _, _)
RecordPuts(put, registered, ops, version, i) ==
    IF i > Len(registered) THEN put
    ELSE RecordPuts([put EXCEPT ![registered[i]] =
                        [stored |-> TRUE, spec |-> ops[i], version |-> version]],
                    registered, ops, version, i + 1)

\* The clients of the persistent registry that may be inside put_op at once.
Writers == {1, 2}

WritersIdle == [w \in Writers |-> [pc |-> "idle"]]

InitRegistry ==
    /\ catalog = <<>>
    /\ operators = <<>>
    /\ lastP = NoCall
    /\ lastV = NoCall
    /\ putP = [id \in AllIds \cup ExecuteOps |-> NoPut]
    /\ putV = [id \in AllIds \cup ExecuteOps |-> NoPut]
    /\ ncalls = 0

PutOp(identifier, version, spec, replace) ==
    LET p == PersistentPutOp(catalog, identifier, version, spec, replace)
        v == VolatilePutOp(operators, identifier, version, spec, replace)
        call == [call |-> "put_op", identifier |-> identifier, version |-> version,
                 spec |-> spec, replace |-> replace]
        done == [stored |-> TRUE, spec |-> spec, version |-> version]
    IN  /\ ncalls < MaxCalls
        /\ ncalls' = ncalls + 1
        /\ catalog' = p.catalog
        /\ operators' = v.operators
        /\ lastP' = [call |-> call, existed |-> FindOne(catalog, identifier) # 0, result |-> p.result]
        /\ lastV' = [call |-> call, existed |-> KeyIndex(operators, identifier) # 0, result |-> v.result]
        /\ putP' = IF p.result.kind = "ok" THEN [putP EXCEPT ![identifier] = done] ELSE putP
        /\ putV' = IF v.result.kind = "ok" THEN [putV EXCEPT ![identifier] = done] ELSE putV
        /\ UNCHANGED <<opVars, writers, execVars, flowVars>>

GetOp(identifier) ==
    LET call == [call |-> "get_op", identifier |-> identifier]
    IN  /\ lastP' = [call |-> call, result |-> PersistentGetOp(catalog, identifier)]
        /\ lastV' = [call |-> call, result |-> VolatileGetOp(operators, identifier)]
        /\ UNCHANGED <<opVars, catalog, operators, putP, putV, ncalls, writers, execVars, flowVars>>

ListOps ==
    LET call == [call |-> "list_ops"]
    IN  /\ lastP' = [call |-> call, result |-> PersistentListOps(catalog)]
        /\ lastV' = [call |-> call, result |-> VolatileListOps(operators)]
        /\ UNCHANGED <<opVars, catalog, operators, putP, putV, ncalls, writers, execVars, flowVars>>

\* The register call: p and v are what register does on the persistent and
\* on the volatile registry.
RegisterBoth(doc, replace, sourcedir, daemon, p, v) ==
    LET call == [ call |-> "register", doc |-> doc, replace |-> replace, sourcedir |-> sourcedir,
                  daemon |-> daemon ]
        ops == Get(doc, "operators", <<>>)
        version == Get(doc, "version", None)
    IN  /\ ncalls < MaxCalls
        /\ ncalls' = ncalls + 1
        /\ catalog' = p.catalog
        /\ operators' = v.operators
        /\ lastP' = [call |-> call, result |-> p.result, leftover |-> p.leftover]
        /\ lastV' = [call |-> call, result |-> v.result, leftover |-> v.leftover]
        /\ putP' = RecordPuts(putP, p.registered, ops, version, 1)
        /\ putV' = RecordPuts(putV, v.registered, ops, version, 1)
        /\ UNCHANGED <<opVars, writers, execVars, flowVars>>

\* register(source, replace) on a local source folder with the specification
\* file doc, the daemon answering the builds with daemon.
Register(doc, replace, sourcedir, daemon) ==
    RegisterBoth(doc, replace, sourcedir, daemon,
                 PersistentRegister(catalog, doc, replace, sourcedir, daemon),
                 VolatileRegister(operators, doc, replace, sourcedir, daemon))

NextRegistry ==
    \/ \E id \in PutIds, version \in PutVersions, spec \in PutDocs, replace \in BOOLEAN :
            PutOp(id, version, spec, replace)
    \/ \E id \in AllIds : GetOp(id)
    \/ ListOps
    \/ \E doc \in Manifests, replace \in BOOLEAN :
            \E sourcedir \in FoldersFor(doc), daemon \in DaemonAnswers(doc) :
                Register(doc, replace, sourcedir, daemon)

-----------------------------------------------------------------------------
(* register(source) with the clone context manager (registry.py:588-628).   *)

LocalSource == "/home/user/operators"

RemoteSource == "https://github.com/user/operators.git"

Sources == {LocalSource, RemoteSource}

\* tempfile.mkdtemp(): the folder the n-th call of the behaviour makes.
MkDTemp(n) == "/tmp/tmp" \o ToString(n)

\* Path(source).is_dir()
IsDir(dirs, source) == source \in dirs

\* A cleanup that leaves the folder on the disk.
RmTreeKeeps(dirs, sourcedir) == dirs

\* git.rmtree(sourcedir)
RmTree(dirs, sourcedir) == dirs \ {sourcedir}

\* register calls on a source per behaviour.
MaxRegisters == 2

\* The manifests of the sources: those with images, one with one operator and
\* one with two operators of the same identifier.
SourceManifests ==
    {doc \in Manifests : "dockerImages" \in DOMAIN doc \/ "version" \notin DOMAIN doc}

\* The specification file of a source: missing, not parsable, or a manifest.
SpecFiles ==
    { [file |-> "missing"], [file |-> "unparsable"] }
        \cup { [file |-> "parsed", doc |-> doc] : doc \in SourceManifests }

\* specfilepath.open("rt") and yaml.load(f)
ReadSpec(specfile) ==
    IF specfile.file = "missing" THEN Raise("FileNotFoundError", "no such file")
    ELSE IF specfile.file = "unparsable" THEN Raise("YAMLError", "cannot parse")
    ELSE Ok(specfile.doc)

\* The registries register is called on.
Registries == {"persistent", "volatile"}

\* mkdtemp counts the folders made with tempfile.mkdtemp so far, and leaked
\* holds those of them that a docker_build that raised has left on the disk.
InitClone ==
    /\ regcall = [pc |-> "idle", mkdtemp |-> 0, leaked |-> {}]
    /\ disk = {LocalSource}

\* registry.register(source, replace=replace) up to the yield of clone: a
\* local directory is yielded as it is; for anything else a temporary folder
\* is made.
RegisterCall(registry, source, replace) ==
    LET local == IsDir(disk, source)
        temp  == MkDTemp(regcall.mkdtemp + 1)
    IN  /\ regcall.pc \in {"idle", "done"}
        /\ ncalls < MaxRegisters
        /\ ncalls' = ncalls + 1
        /\ regcall' = [ pc |-> IF local THEN "body" ELSE "clone", registry |-> registry,
                        source |-> source, replace |-> replace,
                        sourcedir |-> IF local THEN source ELSE temp,
                        temp |-> IF local THEN None ELSE temp, cloned |-> FALSE,
                        mkdtemp |-> IF local THEN regcall.mkdtemp ELSE regcall.mkdtemp + 1,
                        doc |-> EmptyDict, folder |-> FolderEmpty, i |-> 1, j |-> 1,
                        build |-> None, leftover |-> 0, leaked |-> regcall.leaked,
                        registered |-> <<>>, result |-> None ]
        /\ disk' = IF local THEN disk ELSE disk \cup {temp}
        /\ UNCHANGED <<executeVars, lastBuild, catalog, operators, lastP, lastV, putP, putV, writers,
                       execVars, flowVars>>

\* git.Repo.clone_from(source, sourcedir) returns: the body of the with
\* statement runs next.
CloneFrom ==
    /\ regcall.pc = "clone"
    /\ regcall' = [regcall EXCEPT !.pc = "body", !.cloned = TRUE]
    /\ UNCHANGED <<executeVars, lastBuild, disk, regVars, writers, execVars, flowVars>>

\* git.Repo.clone_from raises: the except clause raises it again.
CloneFromFails ==
    /\ regcall.pc = "clone"
    /\ regcall' = [regcall EXCEPT !.pc = "cleanup",
                                  !.result = Raise("GitCommandError", "clone failed")]
    /\ UNCHANGED <<executeVars, lastBuild, disk, regVars, writers, execVars, flowVars>>

\* The body of the with statement is left with the outcome result: the
\* finally clause of clone is next when a temporary folder was made.
RegisterLeave(rc, result) ==
    [rc EXCEPT !.pc = IF rc.temp = None THEN "done" ELSE "cleanup", !.result = result]

\* The body goes on with the next image, the next operator or the return of
\* registered_ops.
RegisterContinue(rc) ==
    IF rc.i <= Len(Get(rc.doc, "dockerImages", <<>>)) THEN [rc EXCEPT !.pc = "build"]
    ELSE IF rc.j <= Len(Get(rc.doc, "operators", <<>>)) THEN [rc EXCEPT !.pc = "put"]
    ELSE RegisterLeave(rc, Ok(rc.registered))

\* History: lastP and lastV keep the register call that has left its body.
RegisterRecord(rc, registry, last) ==
    IF rc.registry = registry /\ rc.pc \in {"done", "cleanup"}
    THEN [ call |-> [ call |-> "register", doc |-> rc.doc, replace |-> rc.replace,
                      sourcedir |-> rc.folder ],
           result |-> rc.result, leftover |-> rc.leftover ]
    ELSE last

\* The body of the with statement up to the first docker_build or put_op:
\* the specification file of the source folder is opened and parsed; folder
\* is the content of the source folder.
RegisterRead(specfile, folder) ==
    LET read == ReadSpec(specfile)
        rc == IF read.kind # "ok" THEN RegisterLeave(regcall, read)
              ELSE RegisterContinue([regcall EXCEPT !.doc = read.value, !.folder = folder])
    IN  /\ regcall.pc = "body"
        /\ regcall' = rc
        /\ lastP' = RegisterRecord(rc, "persistent", lastP)
        /\ lastV' = RegisterRecord(rc, "volatile", lastV)
        /\ UNCHANGED <<executeVars, lastBuild, disk, catalog, operators, putP, putV, ncalls, writers,
                       execVars, flowVars>>

\* docker_build(sourcedir, obj) for the next image, up to the call of the
\* daemon: the temporary folder of the build is made, and it stays on the
\* disk when an error is raised before the try statement.
BuildStart ==
    LET tmpdir == MkDTemp(regcall.mkdtemp + 1)
        name == DockerBuildPrepare(regcall.doc["dockerImages"][regcall.i], regcall.folder)
        made == [regcall EXCEPT !.mkdtemp = regcall.mkdtemp + 1]
        rc == IF name.kind # "ok"
              THEN RegisterLeave([made EXCEPT !.leftover = 1,
                                               !.leaked = regcall.leaked \cup {tmpdir}], name)
              ELSE [made EXCEPT !.pc = "daemon", !.build = tmpdir]
    IN  /\ regcall.pc = "build"
        /\ disk' = disk \cup {tmpdir}
        /\ regcall' = rc
        /\ lastP' = RegisterRecord(rc, "persistent", lastP)
        /\ lastV' = RegisterRecord(rc, "volatile", lastV)
        /\ UNCHANGED <<executeVars, lastBuild, catalog, operators, putP, putV, ncalls, writers,
                       execVars, flowVars>>

\* client.images.build answers, and the finally clause of docker_build
\* removes the temporary folder of the build.
BuildFinish(daemon) ==
    LET built == [regcall EXCEPT !.build = None]
        rc == IF daemon # "ok" THEN RegisterLeave(built, Raise(daemon, "build failed"))
              ELSE RegisterContinue([built EXCEPT !.i = regcall.i + 1])
    IN  /\ regcall.pc = "daemon"
        /\ disk' = RmTree(disk, regcall.build)
        /\ regcall' = rc
        /\ lastP' = RegisterRecord(rc, "persistent", lastP)
        /\ lastV' = RegisterRecord(rc, "volatile", lastV)
        /\ UNCHANGED <<executeVars, lastBuild, catalog, operators, putP, putV, ncalls, writers,
                       execVars, flowVars>>

\* op_id = ...; self.put_op(identifier=op_id, version=version, spec=obj,
\* replace=replace); registered_ops.append(op_id) for the next operator.
PutNext ==
    LET obj == regcall.doc["operators"][regcall.j]
        version == Get(regcall.doc, "version", None)
        id == OpId(Get(regcall.doc, "namespace", None), obj)
        p == PersistentPutOp(catalog, id.value, version, obj, regcall.replace)
        v == VolatilePutOp(operators, id.value, version, obj, regcall.replace)
        persistent == regcall.registry = "persistent"
        result == IF id.kind # "ok" THEN id ELSE IF persistent THEN p.result ELSE v.result
        rc == IF result.kind # "ok" THEN RegisterLeave(regcall, result)
              ELSE RegisterContinue([regcall EXCEPT !.j = regcall.j + 1,
                                                    !.registered = Append(regcall.registered, id.value)])
        done == [stored |-> TRUE, spec |-> obj, version |-> version]
    IN  /\ regcall.pc = "put"
        /\ catalog' = IF id.kind = "ok" /\ persistent THEN p.catalog ELSE catalog
        /\ operators' = IF id.kind = "ok" /\ ~persistent THEN v.operators ELSE operators
        /\ putP' = IF result.kind = "ok" /\ persistent THEN [putP EXCEPT ![id.value] = done] ELSE putP
        /\ putV' = IF result.kind = "ok" /\ ~persistent THEN [putV EXCEPT ![id.value] = done] ELSE putV
        /\ regcall' = rc
        /\ lastP' = RegisterRecord(rc, "persistent", lastP)
        /\ lastV' = RegisterRecord(rc, "volatile", lastV)
        /\ UNCHANGED <<executeVars, lastBuild, disk, ncalls, writers, execVars, flowVars>>

\* The finally clause of clone, and register returns or raises.
CloneCleanup ==
    /\ regcall.pc = "cleanup"
    /\ disk' = RmTree(disk, regcall.sourcedir)
    /\ regcall' = [regcall EXCEPT !.pc = "done"]
    /\ UNCHANGED <<executeVars, lastBuild, regVars, writers, execVars, flowVars>>

NextClone ==
    \/ \E registry \in Registries, source \in Sources, replace \in BOOLEAN :
            RegisterCall(registry, source, replace)
    \/ CloneFrom
    \/ CloneFromFails
    \/ \E specfile \in SpecFiles :
            \E folder \in FoldersFor(Get(specfile, "doc", EmptyDict)) : RegisterRead(specfile, folder)
    \/ BuildStart
    \/ \E daemon \in DaemonOutcomes : BuildFinish(daemon)
    \/ PutNext
    \/ CloneCleanup

-----------------------------------------------------------------------------
(* execute: the generic task executor (exec.py).  The process handle gives   *)
(* the registry of operators (a VolatileRegistry, as in tests/process.py),   *)
(* the storage and the context of the resources of upstream tasks.  Its      *)
(* sandbox is the DockerRun object of the call; the workflow of the process  *)
(* is wf1 and a registry of running containers is given.                     *)

\* execute calls per behaviour.
MaxExecutes == 2

\* Resources that other tasks of the run put into the context per behaviour.
MaxUpstream == 1

\* The variables execute leaves alone whatever it does.
restVars == <<regcall, disk, lastBuild, par, regVars, writers, containers, tasks, clock, listed,
              workflows, revokeLog, mon, rev>>

TextFileUri == "http://www.ontologies.khaos.uma.es/bigowl/TextFile"

\* The directory of the global data store and the directory of the run.
StoreDir == <<"/", "src">>

RunDir == <<"/", "rundir">>

\* json.dumps(value): the text is represented by the value it holds.
JsonDumps(value) == [json |-> value]

\* json.loads(text)
JsonLoads(text) == text.json

\* pcs.to_downstream(resource, tag): self._context.append((resource, tag))
ToDownstream(context, resource, tag) == Append(context, <<resource, tag>>)

\* A lookup that answers an unknown tag with a text file of the store.
UpstreamOneDefault(context, query) ==
    LET hits == {i \in DOMAIN context : context[i][2] = query}
    IN  IF hits = {}
        THEN Ok([ resource |-> StoreDir \o <<"names.txt">>,
                  datatype |-> JsonDumps([uri |-> TextFileUri]), tag |-> query ])
        ELSE Ok(context[Min(hits)][1])

\* pcs.upstream_one(query): the first resource with the tag.
UpstreamOne(context, query) ==
    LET hits == {i \in DOMAIN context : context[i][2] = query}
    IN  IF hits = {} THEN Raise("ValueError", "unknown resource")
        ELSE Ok(context[Min(hits)][1])

\* The storage of the process handed to execute: the FileSystemStore of the
\* test process, which has the folders of the global store and of the run and
\* no get_file, put_file or local_dir of its own; one of its folders, a
\* FolderStore, which has get_file(path) and put_file(src, dst); or the
\* storage of the workers' process, which has get_file(path),
\* put_file(file_path, rename) and the folder of the run as local_dir.
Storages == {"FileSystemStore", "FolderStore", "GlobalStore"}

\* pcs.storage.get_file(path): an AttributeError on a storage without the
\* method; else the handle of the file at path (the sequence of its parts) in
\* the folder of the global store, returned whether the file exists or not.
GetFile(storage, path) ==
    IF storage = "FileSystemStore"
    THEN Raise("AttributeError", "'FileSystemStore' object has no attribute 'get_file'")
    ELSE Ok([resource |-> StoreDir \o path])

\* The scheme of the resources that are kept in the object store.
Minio == "minio:"

\* run.copy(src, dst) with a src that is a resource handle and not a path:
\* with a dst the parent folder of the target is made before Path(src)
\* raises, without one Path(src).name raises first.
CopyHandle(sb, dst) ==
    LET target == JoinPath(sb.basedir, dst)
        parent == ParentPath(target)
    IN  IF dst = <<>>
        THEN [sandbox |-> sb, result |-> Raise("TypeError", "expected str, bytes or os.PathLike object")]
        ELSE IF parent \in sb.files
        THEN [sandbox |-> sb, result |-> Raise("FileExistsError", "file exists")]
        ELSE IF Ancestors(parent) \cap sb.files # {}
        THEN [sandbox |-> sb, result |-> Raise("NotADirectoryError", "not a directory")]
        ELSE [ sandbox |-> [sb EXCEPT !.dirs = sb.dirs \cup Ancestors(parent)],
               result |-> Raise("TypeError", "expected str, bytes or os.PathLike object") ]

\* Path(self.basedir, unique_id()): the new directory of call n.
TmpDir(n) == <<"/", "tmp", "run" \o ToString(n)>>

\* pcs.storage.tmpdir(): the FolderStore has no such method; the
\* FileSystemStore and the storage of the workers' process make a new
\* directory with filepath.mkdir() and return its path.
MakeTmpDir(storage, sb, n) ==
    IF storage = "FolderStore"
    THEN [ sandbox |-> sb,
           result |-> Raise("AttributeError", "'FolderStore' object has no attribute 'tmpdir'") ]
    ELSE [sandbox |-> [sb EXCEPT !.dirs = sb.dirs \cup {TmpDir(n)}], result |-> Ok(TmpDir(n))]

\* cleanup() calls on the storage per behaviour.
MaxCleanups == 2

\* FileSystemStore.cleanup(): shutil.rmtree(filepath) for the folders of
\* _tmpdirs from i on; a folder that is gone raises and ends the loop.
RECURSIVE Cleanup(_, _, _)
Cleanup(sb, tmpdirs, i) ==
    IF i > Len(tmpdirs) THEN [sandbox |-> sb, result |-> Ok(None)]
    ELSE IF tmpdirs[i] \notin sb.dirs
    THEN [sandbox |-> sb, result |-> Raise("FileNotFoundError", "no such file or directory")]
    ELSE Cleanup([sb EXCEPT !.dirs = {d \in sb.dirs : ~ IsBelow(d, tmpdirs[i])},
                            !.files = {f \in sb.files : ~ IsBelow(f, tmpdirs[i])}], tmpdirs, i + 1)

\* A source is a tag (one part) or a prefix followed by the parts of the
\* path behind '::'.  A copy that takes every prefixed source from the
\* global store.
CopyInputFileAnyScheme(p, sb, file) ==
    LET src == file.src
        resource ==
            IF Len(src) = 1
            THEN LET doc == UpstreamOne(p.context, src[1])
                 IN  IF doc.kind # "ok" THEN doc
                     ELSE IF JsonLoads(doc.value.datatype).uri # TextFileUri
                     THEN Raise("ValueError", "unknown data type")
                     ELSE IF doc.value.resource[1] = Minio
                     THEN LET h == GetFile(p.storage, doc.value.resource)
                          IN  IF h.kind # "ok" THEN h
                              ELSE Ok([resource |-> h.value, handle |-> TRUE])
                     ELSE Ok([resource |-> doc.value.resource, handle |-> FALSE])
            ELSE LET h == GetFile(p.storage, Tail(src))
                 IN  IF h.kind # "ok" THEN h
                     ELSE Ok([resource |-> h.value.resource, handle |-> FALSE])
    IN  IF resource.kind # "ok" THEN [sandbox |-> sb, result |-> resource]
        ELSE IF resource.value.handle THEN CopyHandle(sb, file.dst)
        ELSE LET c == CopyPath(sb, resource.value.resource, file.dst, FALSE)
             IN  [ sandbox |-> c.sandbox,
                   result |-> IF c.result.kind = "ok" THEN Ok([resource |-> resource.value.resource])
                              ELSE c.result ]

\* copy_input_file(pcs, run, file): the sandbox afterwards and the outcome.
\* A resource of the context is a path on the local disk or, with the scheme
\* minio, the name of an object that get_file turns into a handle; the copy
\* is given the path of a TextFile and so the handle itself in that case.
CopyInputFile(p, sb, file) ==
    LET src == file.src
        resource ==
            IF Len(src) = 1
            THEN LET doc == UpstreamOne(p.context, src[1])
                 IN  IF doc.kind # "ok" THEN doc
                     ELSE IF JsonLoads(doc.value.datatype).uri # TextFileUri
                     THEN Raise("ValueError", "unknown data type")
                     ELSE IF doc.value.resource[1] = Minio
                     THEN LET h == GetFile(p.storage, doc.value.resource)
                          IN  IF h.kind # "ok" THEN h
                              ELSE Ok([resource |-> h.value, handle |-> TRUE])
                     ELSE Ok([resource |-> doc.value.resource, handle |-> FALSE])
            ELSE IF src[1] = "store"
            THEN LET h == GetFile(p.storage, Tail(src))
                 IN  IF h.kind # "ok" THEN h
                     ELSE Ok([resource |-> h.value.resource, handle |-> FALSE])
            ELSE Raise("ValueError", "invalid source file specification")
    IN  IF resource.kind # "ok" THEN [sandbox |-> sb, result |-> resource]
        ELSE IF resource.value.handle THEN CopyHandle(sb, file.dst)
        ELSE LET c == CopyPath(sb, resource.value.resource, file.dst, FALSE)
             IN  [ sandbox |-> c.sandbox,
                   result |-> IF c.result.kind = "ok" THEN Ok([resource |-> resource.value.resource])
                              ELSE c.result ]

\* create_output_folders(run, task): the parent folders of the outputs.
\* parent.mkdir(exist_ok=True, parents=True) raises FileExistsError when the
\* parent is a file and NotADirectoryError when a folder above it is one; the
\* folders of the outputs before stay.
RECURSIVE CreateOutputFolders(_, _, _)
CreateOutputFolders(sb, outputs, i) ==
    IF i > Len(outputs) THEN [sandbox |-> sb, result |-> Ok(None)]
    ELSE LET parent == ParentPath(JoinPath(sb.basedir, outputs[i].src))
         IN  IF parent \in sb.dirs THEN CreateOutputFolders(sb, outputs, i + 1)
             ELSE IF parent \in sb.files
             THEN [sandbox |-> sb, result |-> Raise("FileExistsError", "file exists")]
             ELSE IF Ancestors(parent) \cap sb.files # {}
             THEN [sandbox |-> sb, result |-> Raise("NotADirectoryError", "not a directory")]
             ELSE CreateOutputFolders([sb EXCEPT !.dirs = sb.dirs \cup Ancestors(parent)],
                                      outputs, i + 1)

\* isinstance(value, type): bool is a subclass of int.
IsInstance(value, type) ==
    \/ type = "str" /\ value.t = "str"
    \/ type = "int" /\ value.t \in {"int", "bool"}
    \/ type = "float" /\ value.t = "float"

\* The strings int() reads, with their values.
IntLiterals == ("7" :> 7) @@ ("0" :> 0) @@ ("42" :> 42)

\* The strings float() reads, with their values in tenths.
FloatLiterals == ("7" :> 70) @@ ("0" :> 0) @@ ("42" :> 420) @@ ("1.5" :> 15)

\* str(value)
Str(value) ==
    IF value.t = "str" THEN value.s
    ELSE IF value.t = "int" THEN ToString(value.n)
    ELSE IF value.t = "float" THEN ToString(value.n \div 10) \o "." \o ToString(value.n % 10)
    ELSE IF value.t = "bool" THEN (IF value.b THEN "True" ELSE "False")
    ELSE IF value.t = "list" THEN "[]"
    ELSE "None"

\* int(value) of a value that is not an int: a float is truncated.
Int(value) ==
    IF value.t = "str"
    THEN IF value.s \in DOMAIN IntLiterals THEN Ok(PyInt(IntLiterals[value.s]))
         ELSE Raise("ValueError", "invalid literal for int() with base 10")
    ELSE IF value.t = "float" THEN Ok(PyInt(value.n \div 10))
    ELSE Raise("TypeError", "int() argument must be a string, a bytes-like object or a number")

\* float(value) of a value that is not a float.
Float(value) ==
    IF value.t = "str"
    THEN IF value.s \in DOMAIN FloatLiterals THEN Ok(PyFloat(FloatLiterals[value.s]))
         ELSE Raise("ValueError", "could not convert string to float")
    ELSE IF value.t = "int" THEN Ok(PyFloat(value.n * 10))
    ELSE IF value.t = "bool" THEN Ok(PyFloat(IF value.b THEN 10 ELSE 0))
    ELSE Raise("TypeError", "float() argument must be a string or a number")

\* get_parameter(parameter, arguments): the value returned or the exception
\* of the conversion.
GetParameter(parameter, arguments) ==
    LET value == Get(arguments, parameter.name, parameter.default)
    IN  IF value.t = "NoneType" THEN Ok(value)
        ELSE IF parameter.type = "str" /\ ~ IsInstance(value, "str") THEN Ok(PyStr(Str(value)))
        ELSE IF parameter.type = "int" /\ ~ IsInstance(value, "int") THEN Int(value)
        ELSE IF parameter.type = "float" /\ ~ IsInstance(value, "float") THEN Float(value)
        ELSE Ok(value)

\* context[para.name] = get_parameter(parameter=para, arguments=kwargs), for
\* the parameters from i on: the context, or the exception of the first
\* parameter that fails.
RECURSIVE RunContext(_, _, _)
RunContext(parameters, arguments, i) ==
    IF i > Len(parameters) THEN Ok(EmptyDict)
    ELSE LET value == GetParameter(parameters[i], arguments)
             rest == RunContext(parameters, arguments, i + 1)
         IN  IF value.kind # "ok" THEN value
             ELSE IF rest.kind # "ok" THEN rest
             ELSE Ok(rest.value @@ (parameters[i].name :> value.value))

\* A command line is the sequence of its parts: a text or a reference to a
\* variable ($name), which is replaced by str(value).

\* str.strip(): the text without the white space at its ends.
RECURSIVE LStrip(_)
LStrip(s) == IF s # "" /\ Head(s) \in Whitespace THEN LStrip(Tail(s)) ELSE s

RECURSIVE RStrip(_)
RStrip(s) ==
    IF s # "" /\ SubSeq(s, Len(s), Len(s)) \in Whitespace
    THEN RStrip(SubSeq(s, 1, Len(s) - 1))
    ELSE s

Strip(s) == RStrip(LStrip(s))

\* Template(line).substitute(context) for the parts of the line from i on.
RECURSIVE SubstituteFrom(_, _, _)
SubstituteFrom(line, context, i) ==
    IF i > Len(line) THEN Ok("")
    ELSE LET rest == SubstituteFrom(line, context, i + 1)
         IN  IF "var" \in DOMAIN line[i] /\ line[i].var \notin DOMAIN context
             THEN Raise("KeyError", line[i].var)
             ELSE IF rest.kind # "ok" THEN rest
             ELSE IF "var" \in DOMAIN line[i]
             THEN Ok(Str(context[line[i].var]) \o rest.value)
             ELSE Ok(line[i].text \o rest.value)

\* Template(line).substitute(context).strip()
Stripped(line) == IF line.kind # "ok" THEN line ELSE Ok(Strip(line.value))

Substitute(line, context, i) == Stripped(SubstituteFrom(line, context, i))

\* commands.append(...) for every line of task.commands.
RECURSIVE SubstituteAll(_, _, _)
SubstituteAll(lines, context, i) ==
    IF i > Len(lines) THEN Ok(<<>>)
    ELSE LET line == Substitute(lines[i], context, 1)
             rest == SubstituteAll(lines, context, i + 1)
         IN  IF line.kind # "ok" THEN line
             ELSE IF rest.kind # "ok" THEN rest
             ELSE Ok(<<line.value>> \o rest.value)

\* A test that takes every result for a success.
IsSuccessAlways(result) == TRUE

\* ExecResult.is_success()
IsSuccess(result) == result.returncode = 0

\* '\n'.join(logs)
RECURSIVE Join(_)
Join(logs) ==
    IF logs = <<>> THEN ""
    ELSE IF Len(logs) = 1 THEN logs[1]
    ELSE logs[1] \o "\n" \o Join(Tail(logs))

\* The process handed to execute: the PCS of the tests, which has a storage,
\* a catalog and a context and takes to_downstream(resource, tag), or the
\* Process of the workers, which has besides the workflow it belongs to
\* (parent) and the registry of running containers (containers) and takes
\* to_downstream(data).
Processes == {"PCS", "Process"}

\* pcs.parent
Parent(process) ==
    IF process = "PCS" THEN Raise("AttributeError", "'PCS' object has no attribute 'parent'")
    ELSE Ok("wf1")

\* pcs.to_downstream(data=data): the context afterwards.
ToDownstreamData(process, context, data) ==
    IF process = "PCS"
    THEN Raise("TypeError", "to_downstream() got an unexpected keyword argument 'data'")
    ELSE Ok(ToDownstream(context, data, data.tag))

\* pcs.storage.local_dir: the folder of the run; the storages of the tests
\* have no such attribute.
LocalDir(storage) ==
    IF storage \in {"FileSystemStore", "FolderStore"}
    THEN Raise("AttributeError", "'" \o storage \o "' object has no attribute 'local_dir'")
    ELSE Ok(RunDir)

\* shutil.copy2(src, dst): a dst that is a folder takes the file under its
\* own name; the source is opened first, then the target, whose folder is
\* not made.
Copy2(sb, src, dst) ==
    LET target == IF dst \in sb.dirs THEN dst \o <<PathName(src)>> ELSE dst
        fail(cls, m) == [sandbox |-> sb, result |-> Raise(cls, m)]
    IN  IF src = target /\ src \in sb.files \cup sb.dirs
        THEN fail("SameFileError", "are the same file")
        ELSE IF src \in sb.dirs THEN fail("IsADirectoryError", "is a directory")
        ELSE IF src \notin sb.files
        THEN IF Ancestors(ParentPath(src)) \cap sb.files # {}
             THEN fail("NotADirectoryError", "not a directory")
             ELSE fail("FileNotFoundError", "no such file or directory")
        ELSE IF target \in sb.dirs THEN fail("IsADirectoryError", "is a directory")
        ELSE IF ParentPath(target) \in sb.dirs
        THEN [sandbox |-> [sb EXCEPT !.files = sb.files \cup {target}], result |-> Ok(target)]
        ELSE IF Ancestors(ParentPath(target)) \cap sb.files # {}
        THEN fail("NotADirectoryError", "not a directory")
        ELSE fail("FileNotFoundError", "no such file or directory")

\* put_file of a store on the folder of the global store: the folder of the
\* target is made and the file copied.
StorePutFile(sb, src, dst) ==
    LET filepath == StoreDir \o dst
        parent == ParentPath(filepath)
        c == Copy2([sb EXCEPT !.dirs = sb.dirs \cup Ancestors(parent)], src, filepath)
    IN  IF parent \in sb.files
        THEN [sandbox |-> sb, result |-> Raise("FileExistsError", "file exists")]
        ELSE IF Ancestors(parent) \cap sb.files # {}
        THEN [sandbox |-> sb, result |-> Raise("NotADirectoryError", "not a directory")]
        ELSE [ sandbox |-> c.sandbox,
               result |-> IF c.result.kind = "ok" THEN Ok([resource |-> filepath]) ELSE c.result ]

\* pcs.storage.put_file(file_path=src, rename=dst): an AttributeError on a
\* storage without the method and a TypeError on the FolderStore, whose
\* put_file takes src and dst; else the file is put into the global store.
PutFile(storage, sb, src, dst) ==
    IF storage = "FileSystemStore"
    THEN [ sandbox |-> sb,
           result |-> Raise("AttributeError", "'FileSystemStore' object has no attribute 'put_file'") ]
    ELSE IF storage = "FolderStore"
    THEN [ sandbox |-> sb,
           result |-> Raise("TypeError", "put_file() got an unexpected keyword argument 'file_path'") ]
    ELSE StorePutFile(sb, src, dst)

\* The first half of handle_result_file, up to the resource: file.dst is an
\* attribute lookup on the OutputFile object, and a destination is the
\* sequence of its parts between '::'.  An empty destination reads the local
\* dst before it is assigned.
StoreResultFile(storage, sb, file) ==
    LET filepath == JoinPath(sb.basedir, file.src)
        fail(cls, m) == [sandbox |-> sb, result |-> Raise(cls, m)]
        dir == LocalDir(storage)
        c == Copy2(sb, filepath, dir.value \o Tail(file.dst))
    IN  IF "dst" \notin DOMAIN file
        THEN fail("AttributeError", "'OutputFile' object has no attribute 'dst'")
        ELSE IF file.dst = <<>>
        THEN fail("UnboundLocalError", "local variable 'dst' referenced before assignment")
        ELSE IF Len(file.dst) = 1 \/ file.dst[1] \notin {"store", "rundir"}
        THEN fail("ValueError", "invalid destination path")
        ELSE IF file.dst[1] = "store" THEN PutFile(storage, sb, filepath, Tail(file.dst))
        ELSE IF dir.kind # "ok" THEN [sandbox |-> sb, result |-> dir]
        ELSE [ sandbox |-> c.sandbox,
               result |-> IF c.result.kind = "ok" THEN Ok([resource |-> dir.value \o Tail(file.dst)])
                          ELSE c.result ]

\* for tag in file.tags: pcs.to_downstream(data=FileResource(...)) for the
\* tags from i on: the context afterwards.
RECURSIVE TagResultFile(_, _, _, _, _)
TagResultFile(process, context, file, resource, i) ==
    LET data == [ resource |-> resource.resource, datatype |-> JsonDumps(file.datatype),
                  tag |-> file.tags[i] ]
        added == ToDownstreamData(process, context, data)
    IN  IF "tags" \notin DOMAIN file
        THEN Raise("AttributeError", "'OutputFile' object has no attribute 'tags'")
        ELSE IF i > Len(file.tags) THEN Ok(context)
        ELSE IF added.kind # "ok" THEN added
        ELSE TagResultFile(process, added.value, file, resource, i + 1)

\* A handler that erases the sandbox when it fails.
HandleResultFileCleansUp(p, sb, file) ==
    LET stored == StoreResultFile(p.storage, sb, file)
        tagged == TagResultFile(p.process, p.context, file, stored.result.value, 1)
    IN  IF stored.result.kind # "ok"
        THEN [pcs |-> p, sandbox |-> Erase(stored.sandbox), result |-> stored.result]
        ELSE IF tagged.kind # "ok"
        THEN [pcs |-> p, sandbox |-> Erase(stored.sandbox), result |-> tagged]
        ELSE [ pcs |-> [p EXCEPT !.context = tagged.value], sandbox |-> stored.sandbox,
               result |-> stored.result ]

\* handle_result_file(pcs, run, file): the context and the files afterwards
\* and the outcome; p holds the kind of the process, its storage and its
\* context.  An exception of to_downstream leaves the file where it was put.
HandleResultFile(p, sb, file) ==
    LET stored == StoreResultFile(p.storage, sb, file)
        tagged == TagResultFile(p.process, p.context, file, stored.result.value, 1)
    IN  IF stored.result.kind # "ok"
        THEN [pcs |-> p, sandbox |-> stored.sandbox, result |-> stored.result]
        ELSE IF tagged.kind # "ok"
        THEN [pcs |-> p, sandbox |-> stored.sandbox, result |-> tagged]
        ELSE [ pcs |-> [p EXCEPT !.context = tagged.value], sandbox |-> stored.sandbox,
               result |-> stored.result ]

\* The files of the persistent areas of the storage.
Persistent(sb) == {f \in sb.files : IsBelow(f, StoreDir) \/ IsBelow(f, RunDir)}

ExecuteIdle ==
    [ pc |-> "idle", n |-> 0, op |-> None, process |-> "PCS", storage |-> "FileSystemStore",
      task |-> [name |-> None],
      i |-> 1,
      files |-> <<>>, result |-> Ok(None), copied |-> <<>>, history |-> <<>>,
      tmpdirs |-> <<>>, cleanup |-> [calls |-> 0, result |-> Ok(None)],
      at |-> [ docker |-> 0, context |-> <<>>, persistent |-> {}, known |-> FALSE,
               basedir |-> <<>> ] ]

InitExecute ==
    /\ exe = ExecuteIdle
    /\ pcs = [context |-> <<>>, upstream |-> 0]
    /\ par = [call |-> "none"]

\* The labels of the outputs and the sources of the inputs of an operator.
Labels(task) == [i \in DOMAIN task.outputs |-> task.outputs[i].label]

InputSources(task) == [i \in DOMAIN task.inputs |-> task.inputs[i].src]

\* execute leaves with the outcome result.  History: the call is added to
\* the calls that have ended, with whether its operator was registered, the
\* inputs it copied, the return code of its container run as exec (empty
\* when run.exec did not return), the containers it launched (first to
\* last), the context before and after it, whether it changed the files
\* of the persistent storage, the base directory made for it (empty when
\* none was made) and whether that directory is there when it leaves.
Leave(e, result, returncode, p, sb, d) ==
    [e EXCEPT !.pc = "done",
              !.result = result,
              !.history = Append(e.history,
                    [ op |-> e.op, known |-> e.at.known, process |-> e.process, storage |-> e.storage,
                      outputs |-> Labels(e.task), inputs |-> InputSources(e.task),
                      copied |-> e.copied, exec |-> returncode, result |-> result,
                      first |-> e.at.docker + 1, last |-> Len(d),
                      before |-> e.at.context, context |-> p.context,
                      stored |-> Persistent(sb) # e.at.persistent,
                      basedir |-> e.at.basedir, kept |-> e.at.basedir \in sb.dirs ])]

\* execute(pcs, op, **kwargs) up to the loop over the inputs, process being
\* the kind of the process handed in and storage its storage:
\* task = pcs.catalog.get_op(identifier=op);
\* run = DockerRun(basedir=pcs.storage.tmpdir()).  tmpdirs is the list
\* _tmpdirs the FileSystemStore keeps of the folders its tmpdir() made.
ExecuteCall(op, process, storage) ==
    LET task == VolatileGetOp(operators, op)
        made == MakeTmpDir(storage, sandbox, exe.n + 1)
        at == [ docker |-> Len(docker), context |-> pcs.context, persistent |-> Persistent(sandbox),
                known |-> KeyIndex(operators, op) # 0, basedir |-> <<>> ]
        e == [exe EXCEPT !.n = exe.n + 1, !.op = op, !.process = process, !.storage = storage, !.i = 1, !.files = <<>>,
                         !.copied = <<>>,
                         !.at = at, !.task = [name |-> None, outputs |-> <<>>, inputs |-> <<>>]]
    IN  /\ exe.pc \in {"idle", "done"}
        /\ exe.n < MaxExecutes
        /\ IF task.kind # "ok"
           THEN /\ exe' = Leave(e, task, <<>>, pcs, sandbox, docker)
                /\ UNCHANGED sandbox
           ELSE IF made.result.kind # "ok"
           THEN /\ exe' = Leave([e EXCEPT !.task = task.value], made.result, <<>>, pcs, sandbox, docker)
                /\ UNCHANGED sandbox
           ELSE /\ exe' = [e EXCEPT !.pc = IF task.value.inputs = <<>> THEN "prepare" ELSE "inputs",
                                    !.task = task.value,
                                    !.at.basedir = made.result.value,
                                    !.tmpdirs = IF storage = "FileSystemStore"
                                                THEN Append(@, made.result.value) ELSE @]
                /\ sandbox' = NewDockerRun(made.sandbox, made.result.value, TRUE).sandbox
        /\ UNCHANGED <<restVars, pcs, run, docker>>

\* copy_input_file(pcs=pcs, run=run, file=file) for the next input.
ExecuteCopyInput ==
    LET file == exe.task.inputs[exe.i]
        c == CopyInputFile([context |-> pcs.context, storage |-> exe.storage], sandbox, file)
        e == [exe EXCEPT !.copied = Append(exe.copied,
                    [ src |-> file.src, result |-> c.result, changed |-> c.sandbox # sandbox,
                      present |-> JoinPath(sandbox.basedir, file.dst) \in c.sandbox.files ])]
    IN  /\ exe.pc = "inputs"
        /\ sandbox' = c.sandbox
        /\ exe' = IF c.result.kind # "ok" THEN Leave(e, c.result, <<>>, pcs, c.sandbox, docker)
                  ELSE IF exe.i < Len(exe.task.inputs) THEN [e EXCEPT !.i = exe.i + 1]
                  ELSE [e EXCEPT !.pc = "prepare"]
        /\ UNCHANGED <<restVars, pcs, run, docker>>

\* From create_output_folders to the for statement of run.exec(image,
\* commands, bind_dirs=True, env, workflow_id=pcs.parent,
\* registry=pcs.containers); behaviour tells what each command does in its
\* container.  The arguments are evaluated before run.exec is entered: a
\* process without the attribute parent leaves execute there.
ExecutePrepare(kwargs, behaviour) ==
    LET made == CreateOutputFolders(sandbox, exe.task.outputs, 1)
        context == RunContext(exe.task.parameters, kwargs, 1)
        lines == IF context.kind # "ok" THEN context
                 ELSE SubstituteAll(exe.task.commands, context.value, 1)
        commands == [k \in DOMAIN lines.value |->
                        [exit |-> behaviour[k].exit, out |-> behaviour[k].out, line |-> lines.value[k]]]
        parent == Parent(exe.process)
    IN  /\ exe.pc = "prepare"
        /\ DOMAIN behaviour = DOMAIN exe.task.commands
        /\ IF made.result.kind # "ok"
           THEN /\ exe' = Leave(exe, made.result, <<>>, pcs, made.sandbox, docker)
                /\ sandbox' = made.sandbox
                /\ UNCHANGED run
           ELSE IF lines.kind # "ok"
           THEN /\ exe' = Leave(exe, lines, <<>>, pcs, made.sandbox, docker)
                /\ sandbox' = made.sandbox
                /\ UNCHANGED run
           ELSE IF parent.kind # "ok"
           THEN /\ exe' = Leave(exe, parent, <<>>, pcs, made.sandbox, docker)
                /\ sandbox' = made.sandbox
                /\ UNCHANGED run
           ELSE \E order \in GlobOrders(made.sandbox, <<>>) :
                /\ exe' = [exe EXCEPT !.pc = "exec"]
                /\ sandbox' = BindDirs(made.sandbox, <<>>, order)
                /\ run' = ExecLocals([isList |-> TRUE, value |-> commands], TRUE, parent.value, TRUE,
                                     BindDirs(made.sandbox, <<>>, order).volumes, exe.n)
        /\ UNCHANGED <<restVars, pcs, docker>>

\* A check of the result that erases the sandbox of a successful run at once.
ExecuteResultErases ==
    /\ exe.pc = "exec"
    /\ run.pc \in {"done", "propagated"}
    /\ exe' = IF run.pc = "propagated"
              THEN Leave(exe, Raise(run.result.exception, "raised by the daemon"), <<>>,
                         pcs, sandbox, docker)
              ELSE IF ~ IsSuccess(run.result)
              THEN Leave(exe, Raise("Exception", Join(run.result.logs)), <<run.result.returncode>>,
                         pcs, sandbox, docker)
              ELSE [exe EXCEPT !.pc = "outputs", !.i = 1]
    /\ sandbox' = IF run.pc = "done" /\ IsSuccess(run.result) THEN Erase(sandbox) ELSE sandbox
    /\ UNCHANGED <<restVars, pcs, run, docker>>

\* run.exec has returned or an exception has left it:
\* if not result.is_success(): raise Exception('\n'.join(result.logs))
ExecuteResult ==
    /\ exe.pc = "exec"
    /\ run.pc \in {"done", "propagated"}
    /\ exe' = IF run.pc = "propagated"
              THEN Leave(exe, Raise(run.result.exception, "raised by the daemon"), <<>>,
                         pcs, sandbox, docker)
              ELSE IF ~ IsSuccess(run.result)
              THEN Leave(exe, Raise("Exception", Join(run.result.logs)), <<run.result.returncode>>,
                         pcs, sandbox, docker)
              ELSE [exe EXCEPT !.pc = "outputs", !.i = 1]
    /\ UNCHANGED <<restVars, pcs, sandbox, run, docker>>

\* resource = handle_result_file(pcs=pcs, run=run, file=file);
\* files.append(resource) for the next output.
ExecuteHandleOutput ==
    LET h == HandleResultFile([ process |-> exe.process, storage |-> exe.storage,
                                context |-> pcs.context ], sandbox, exe.task.outputs[exe.i])
    IN  /\ exe.pc = "outputs"
        /\ exe.i <= Len(exe.task.outputs)
        /\ pcs' = [pcs EXCEPT !.context = h.pcs.context]
        /\ sandbox' = h.sandbox
        /\ exe' = IF h.result.kind # "ok"
                  THEN Leave(exe, h.result, <<run.result.returncode>>, h.pcs, h.sandbox, docker)
                  ELSE [exe EXCEPT !.i = exe.i + 1, !.files = Append(exe.files, h.result.value)]
        /\ UNCHANGED <<restVars, run, docker>>

\* run.erase(); return TaskResult(files=files)
ExecuteReturn ==
    /\ exe.pc = "outputs"
    /\ exe.i > Len(exe.task.outputs)
    /\ sandbox' = Erase(sandbox)
    /\ exe' = Leave(exe, Ok([files |-> exe.files]), <<run.result.returncode>>, pcs, Erase(sandbox),
                  docker)
    /\ UNCHANGED <<restVars, pcs, run, docker>>

\* pcs.storage.cleanup() on the FileSystemStore, between two execute calls.
StorageCleanup ==
    LET c == Cleanup(sandbox, exe.tmpdirs, 1)
    IN  /\ exe.pc \in {"idle", "done"}
        /\ exe.cleanup.calls < MaxCleanups
        /\ sandbox' = c.sandbox
        /\ exe' = [exe EXCEPT !.cleanup = [calls |-> exe.cleanup.calls + 1, result |-> c.result]]
        /\ UNCHANGED <<restVars, pcs, run, docker>>

\* Another task of the run puts a resource into the context, between two
\* execute calls.
Upstream(resource, datatype, tag) ==
    /\ exe.pc \in {"idle", "done"}
    /\ pcs.upstream < MaxUpstream
    /\ pcs' = [ context |-> ToDownstream(pcs.context,
                                [ resource |-> resource, datatype |-> JsonDumps(datatype),
                                  tag |-> tag ], tag),
                upstream |-> pcs.upstream + 1 ]
    /\ UNCHANGED <<restVars, exe, sandbox, run, docker>>

\* The operators of the model: one that writes a file with the label names,
\* one that reads the resource with the tag names, and one for each form of
\* a prefixed source.
DatatypeText == [uri |-> TextFileUri]

OpProducer ==
    [ name |-> "Producer", image |-> "python:3.9",
      commands |-> << <<[text |-> "python names.py"]>>, <<[text |-> "python sort.py"]>> >>,
      files |-> [outputs |-> <<[ src |-> <<"results", "names.txt">>, datatype |-> DatatypeText,
                                label |-> "names" ]>>] ]

OpConsumer ==
    [ name |-> "Consumer", image |-> "python:3.9",
      commands |-> << << [text |-> "python count.py --limit "], [var |-> "limit"],
                         [text |-> " --greeting "], [var |-> "greeting"] >> >>,
      parameters |-> << [name |-> "limit", type |-> "int"],
                        [name |-> "greeting", type |-> "str", default |-> PyStr("Hello")] >>,
      files |-> [inputs |-> <<[src |-> <<"names">>, dst |-> <<"data", "names.txt">>]>>] ]

OpReader(name, src) ==
    [ name |-> name, image |-> "python:3.9",
      commands |-> << <<[text |-> "python read.py"]>> >>,
      files |-> [inputs |-> <<[src |-> src, dst |-> <<"data", "names.txt">>]>>] ]

ExecuteManifest ==
    [ operators |-> << OpProducer, OpConsumer,
                       OpReader("FromStore", <<"store", "dir", "f.txt">>),
                       OpReader("FromGone", <<"store", "gone.txt">>),
                       OpReader("FromRundir", <<"rundir", "names.txt">>),
                       OpReader("FromContext", <<"context", "names">>),
                       OpReader("FromUrl", <<"url", "names.txt">>) >> ]

\* What a command does in its container.
ExecuteOutcomes == {[exit |-> 0, out |-> "done"], [exit |-> 2, out |-> "error"]}

ExecuteBehaviours == UNION {[1 .. n -> ExecuteOutcomes] : n \in 1 .. 2}

\* The arguments of the calls: none, a greeting that is a text, a number or
\* empty, and a limit that int() cannot read.
ExecuteArguments ==
    { EmptyDict, [greeting |-> PyStr("Hi")], [greeting |-> PyInt(7)], [greeting |-> PyStr("")],
      [limit |-> PyStr("abc")] }

\* get_parameter(parameter=parameter, arguments=arguments), called once.
GetParameterCall(parameter, arguments) ==
    /\ par.call = "none"
    /\ par' = [ call |-> "get_parameter", parameter |-> parameter, arguments |-> arguments,
                result |-> GetParameter(parameter, arguments) ]
    /\ UNCHANGED <<exe, pcs, lastBuild, cloneVars, regVars, writers, execVars, flowVars>>

\* The value returned is put into the context and substituted into the
\* command line "$name".
SubstituteParameter ==
    /\ par.call = "get_parameter"
    /\ par.result.kind = "ok"
    /\ par' = [ call |-> "substitute", parameter |-> par.parameter, arguments |-> par.arguments,
                result |-> par.result,
                text |-> Substitute(<<[var |-> par.parameter.name]>>,
                                    (par.parameter.name :> par.result.value), 1) ]
    /\ UNCHANGED <<exe, pcs, lastBuild, cloneVars, regVars, writers, execVars, flowVars>>

\* The types a parameter is declared with, and the values of defaults and
\* arguments.
ParameterTypes == {"str", "int", "float"}

ParameterValues ==
    { PyNone, PyStr("7"), PyStr("1.5"), PyStr("abc"), PyInt(42), PyFloat(15), PyBool(TRUE),
      PyList }

NextParameter ==
    \/ \E type \in ParameterTypes, default \in ParameterValues,
          arguments \in {EmptyDict} \cup {("n" :> v) : v \in ParameterValues} :
            GetParameterCall([name |-> "n", type |-> type, default |-> default], arguments)
    \/ SubstituteParameter

\* The operators are registered once, between two execute calls.
RegisterOperators ==
    /\ exe.pc \in {"idle", "done"}
    /\ ncalls = 0
    /\ Register(ExecuteManifest, FALSE, FolderEmpty, <<>>)

\* The resources other tasks put into the context: a file of the local disk
\* and an object of the object store.
UpstreamResources == { <<"/", "src", "names.txt">>, <<Minio, "bucket", "names.txt">> }

\* The steps of the execute calls.  The daemon fails, if at all, at the
\* launch of a container (the image is not found).
NextExecute ==
    \/ RegisterOperators
    \/ \E resource \in UpstreamResources : Upstream(resource, DatatypeText, "names")
    \/ \E op \in ExecuteOps, process \in Processes, storage \in Storages :
            ExecuteCall(op, process, storage)
    \/ ExecuteCopyInput
    \/ \E kwargs \in ExecuteArguments, behaviour \in ExecuteBehaviours :
            ExecutePrepare(kwargs, behaviour)
    \/ Launch
    \/ LaunchFails("ImageNotFound")
    \/ Insert
    \/ Wait
    \/ Unregister
    \/ Logs
    \/ Remove
    \/ ExecuteResult
    \/ ExecuteHandleOutput
    \/ ExecuteReturn
    \/ StorageCleanup

Init ==
    /\ InitRegistry
    /\ writers = WritersIdle
    /\ InitExec
    /\ InitTasks
    /\ InitFlow
    /\ InitBuild
    /\ InitClone
    /\ InitExecute

Next == NextRegistry

\* Calls on the two registries, one after the other.
Spec == Init /\ [][Next]_vars

\* One exec call, with the daemon answering or failing at every request.
SpecExec == Init /\ [][NextExec]_vars

\* A workflow submitted, its tasks taken up by the workers, and list_all calls.
\* bind, copy and exec calls on one sandbox, one after the other.
SpecSandbox == Init /\ [][NextSandbox]_vars

\* get_dockerfile calls on image specifications and source directories.
SpecBuild == Init /\ [][NextBuild]_vars

\* One get_parameter call and the substitution of its value.
SpecParameter == Init /\ [][NextParameter]_vars

\* register calls on local and remote sources, one after the other.
SpecClone == Init /\ [][NextClone]_vars

\* execute calls of one process, one after the other, with the daemon
\* answering or failing at every request.
SpecExecute == Init /\ [][NextExecute]_vars

SpecTasks == Init /\ [][NextTasks]_vars

\* The updates of the tasks of one workflow, those of a caller included.
SpecUpdate == Init /\ [][NextUpdate]_vars

\* One run call, with the workers taking up the tasks of its workflow.
SpecMonitor == Init /\ [][NextMonitor]_vars

\* revoke calls beside one exec call of the workflow wf1.
SpecRevoke == Init /\ [][NextRevoke]_vars

-----------------------------------------------------------------------------
(* Concurrent put_op calls on the persistent registry.  put_op first asks   *)
(* find_one and then inserts or updates, outside any transaction: another  *)
(* client's put_op can run between the two.                                 *)

RaceDocs == {DocHello, DocHelloAlt}

\* Writer w enters put_op and gets the answer of find_one.
PutOpFind(w, identifier, version, spec, replace) ==
    /\ writers[w].pc = "idle"
    /\ writers' = [writers EXCEPT ![w] =
            [ pc |-> "found", identifier |-> identifier, version |-> version, spec |-> spec,
              replace |-> replace, found |-> FindOne(catalog, identifier) # 0 ]]
    /\ UNCHANGED <<opVars, regVars, execVars, flowVars>>

\* Writer w takes the branch its find_one answer selects, and returns.
PutOpWrite(w) ==
    LET a == writers[w]
        p == PersistentPutAfterFind(catalog, a.found, a.identifier, a.version, a.spec, a.replace)
    IN  /\ a.pc = "found"
        /\ catalog' = p.catalog
        /\ writers' = [writers EXCEPT ![w] =
                [ pc |-> "done", identifier |-> a.identifier, version |-> a.version,
                  spec |-> a.spec, replace |-> a.replace, found |-> a.found,
                  result |-> p.result ]]
        /\ UNCHANGED <<opVars, operators, lastP, lastV, putP, putV, ncalls, execVars, flowVars>>

NextRace ==
    \/ \E w \in Writers, id \in PutIds, version \in PutVersions, spec \in RaceDocs,
          replace \in BOOLEAN : PutOpFind(w, id, version, spec, replace)
    \/ \E w \in Writers : PutOpWrite(w)

SpecRace == Init /\ [][NextRace]_vars

-----------------------------------------------------------------------------
(* Properties of the registries. *)

NotFound == Raise("ValueError", "unknown operator")

AlreadyExists == Raise("ValueError", "operator exists")

\* The entries a registry holds under one identifier.
CatalogEntries(identifier) == {i \in DOMAIN catalog : catalog[i].opId = identifier}

DictEntries(identifier) == {i \in DOMAIN operators : operators[i][1] = identifier}

\* A get_op outcome that is an operator equal to the given spec and version.
ReturnsOperator(result, spec, version) ==
    /\ result.kind = "ok"
    /\ result.value.doc = spec
    /\ result.value.version = version

\* What C1 asks of the outcome of get_op(identifier), given the history put.
GetOpAsStored(result, put, identifier) ==
    IF put[identifier].stored
    THEN ReturnsOperator(result, put[identifier].spec, put[identifier].version)
    ELSE result = NotFound

\* C1: on both registries, get_op(id) after a successful put_op(id, version,
\* spec) returns an operator equal to the spec and version last stored under
\* id, and get_op of an identifier that was never stored fails with NotFound.
C1_GetOpReturnsLastPut ==
    lastP.call.call = "get_op" =>
        /\ GetOpAsStored(lastP.result, putP, lastP.call.identifier)
        /\ GetOpAsStored(lastV.result, putV, lastV.call.identifier)

\* C2 as stated: put_op with replace=false on a registered identifier fails
\* with AlreadyExists; put_op with replace=true always succeeds and the next
\* get_op returns the new spec and version.
C2_ReplaceAlwaysSucceeds ==
    lastP.call.call = "put_op" =>
        LET c == lastP.call
        IN  /\ (~ c.replace /\ lastP.existed) => lastP.result = AlreadyExists
            /\ (~ c.replace /\ lastV.existed) => lastV.result = AlreadyExists
            /\ c.replace =>
                /\ lastP.result.kind = "ok"
                /\ lastV.result.kind = "ok"
                /\ ReturnsOperator(PersistentGetOp(catalog, c.identifier), c.spec, c.version)
                /\ ReturnsOperator(VolatileGetOp(operators, c.identifier), c.spec, c.version)

\* C2 amended: put_op with replace=false on a registered identifier fails with
\* AlreadyExists; put_op with replace=true and a spec that carries every
\* element DockerOp reads succeeds whether or not the identifier is
\* registered, and the next get_op returns the new spec and version.
C2_ReplaceOfWellFormedSucceeds ==
    lastP.call.call = "put_op" =>
        LET c == lastP.call
        IN  /\ (~ c.replace /\ lastP.existed) => lastP.result = AlreadyExists
            /\ (~ c.replace /\ lastV.existed) => lastV.result = AlreadyExists
            /\ (c.replace /\ ~ MissingKey(c.spec)) =>
                /\ lastP.result.kind = "ok"
                /\ lastV.result.kind = "ok"
                /\ ReturnsOperator(PersistentGetOp(catalog, c.identifier), c.spec, c.version)
                /\ ReturnsOperator(VolatileGetOp(operators, c.identifier), c.spec, c.version)

\* A replace=true put_op of a well-formed spec has overwritten a registered
\* identifier on both registries.
C2_Witness ==
    /\ lastP.call.call = "put_op"
    /\ lastP.call.replace /\ lastP.existed /\ lastV.existed
    /\ ~ MissingKey(lastP.call.spec)
    /\ lastP.result.kind = "ok" /\ lastV.result.kind = "ok"

\* C3: after any sequence of put_op calls run one after the other, a registry
\* holds at most one entry per identifier; a put_op with replace=true on a
\* registered identifier adds no second entry, and the entry it leaves when
\* it succeeds is the new one.
C3_OneEntryPerIdentifier ==
    /\ \A id \in AllIds :
        /\ Cardinality(CatalogEntries(id)) <= 1
        /\ Cardinality(DictEntries(id)) <= 1
    /\ lastP.call.call = "put_op" =>
        LET c == lastP.call
            doc == [opId |-> c.identifier, spec |-> c.spec, version |-> c.version]
        IN  /\ (c.replace /\ lastP.existed /\ lastP.result.kind = "ok") =>
                    \A i \in CatalogEntries(c.identifier) : catalog[i] = doc
            /\ (c.replace /\ lastV.existed /\ lastV.result.kind = "ok") =>
                    \A i \in DictEntries(c.identifier) :
                        /\ operators[i][2].doc = c.spec
                        /\ operators[i][2].version = c.version

\* A replace=true put_op on a registered identifier, after which the catalog
\* still holds one document for it.
C3_Witness ==
    /\ lastP.call.call = "put_op"
    /\ lastP.call.replace /\ lastP.existed
    /\ lastP.result.kind = "ok"
    /\ Cardinality(CatalogEntries(lastP.call.identifier)) = 1
    /\ Cardinality(DictEntries(lastP.call.identifier)) = 1

\* The identifier C5 expects for the i-th operator of a manifest: namespace
\* and name joined by a dot when the manifest names a (non-empty) namespace,
\* the name otherwise.
ExpectedId(doc, i) ==
    LET namespace == Get(doc, "namespace", None)
        name == doc["operators"][i]["name"]
    IN  IF Truthy(namespace) THEN namespace \o "." \o name ELSE name

\* What C5 asks of a register call that returned: one identifier per declared
\* operator, in manifest order.
ReturnsDeclaredIds(last) ==
    LET ops == Get(last.call.doc, "operators", <<>>)
    IN  /\ Len(last.result.value) = Len(ops)
        /\ \A i \in DOMAIN ops : last.result.value[i] = ExpectedId(last.call.doc, i)

\* C5: register returns, in manifest order, one identifier per declared
\* operator, "{namespace}.{name}" or name, and after it has returned every
\* returned identifier is resolvable with get_op.
C5_RegisterReturnsResolvableIds ==
    /\ (lastP.call.call = "register" /\ lastP.result.kind = "ok") =>
        /\ ReturnsDeclaredIds(lastP)
        /\ \A i \in DOMAIN lastP.result.value :
                PersistentGetOp(catalog, lastP.result.value[i]).kind = "ok"
    /\ (lastV.call.call = "register" /\ lastV.result.kind = "ok") =>
        /\ ReturnsDeclaredIds(lastV)
        /\ \A i \in DOMAIN lastV.result.value :
                VolatileGetOp(operators, lastV.result.value[i]).kind = "ok"

\* Two outcomes of one call are the same: the same exception, or the same
\* returned value.
SameOutcome(a, b) ==
    /\ a.kind = b.kind
    /\ IF a.kind = "ok" THEN a.value = b.value ELSE a.msg = b.msg

\* C6: every call of a sequence of put_op, get_op and list_ops calls applied
\* to a persistent and to a volatile registry, both empty at first, has the
\* same outcome on both.
C6_SameOutcomeOnBoth ==
    lastP.call.call \in {"put_op", "get_op", "list_ops"} => SameOutcome(lastP.result, lastV.result)

\* Two writers have both returned from put_op(replace=false) for one
\* identifier, and both had been told by find_one that it was not present.
BothInserted(w1, w2) ==
    /\ w1 # w2
    /\ writers[w1].pc = "done" /\ writers[w2].pc = "done"
    /\ writers[w1].identifier = writers[w2].identifier
    /\ ~ writers[w1].replace /\ ~ writers[w2].replace
    /\ ~ writers[w1].found /\ ~ writers[w2].found

\* C4 as stated: when two put_op(replace=false) calls for one unregistered
\* identifier both observe 'not present' and both attempt the insert, one of
\* the inserts fails and the catalog ends with exactly one entry.
C4_RaceLeavesOneEntry ==
    \A w1, w2 \in Writers : BothInserted(w1, w2) =>
        /\ Cardinality(CatalogEntries(writers[w1].identifier)) = 1
        /\ writers[w1].result.kind # "ok" \/ writers[w2].result.kind # "ok"

\* C4 amended: in that interleaving both inserts succeed and the catalog ends
\* with two entries for the identifier.
C4_RaceLeavesTwoEntries ==
    \A w1, w2 \in Writers : BothInserted(w1, w2) =>
        /\ Cardinality(CatalogEntries(writers[w1].identifier)) = 2
        /\ writers[w1].result.kind = "ok" /\ writers[w2].result.kind = "ok"

C4_Witness == BothInserted(1, 2)

-----------------------------------------------------------------------------
(* Properties of DockerRun.exec. *)

\* exec has returned its ExecResult to the caller.
ExecReturned == run.pc = "done"

\* The daemon has reported the exit of container k.
Exited(k) == docker[k].status \in {"exited", "removed"}

\* The containers that have exited with a non-zero code.
FailedContainers == {k \in DOMAIN docker : Exited(k) /\ docker[k].command.exit # 0}

\* Containers are launched one per command, in list order, and none after a
\* container that has not exited with code 0.
LaunchedInOrder ==
    run.pc # "idle" =>
        /\ Len(docker) <= Len(run.commands)
        /\ \A k \in DOMAIN docker :
              /\ docker[k].command = run.commands[k]
              /\ \A j \in 1 .. k - 1 : Exited(j) /\ docker[j].command.exit = 0

\* Every command of the list has run in a container that exited with code 0.
AllExitedZero ==
    /\ Len(docker) = Len(run.commands)
    /\ \A k \in DOMAIN docker : Exited(k) /\ docker[k].command.exit = 0

\* The returncode is the exit code of the first container that exited with a
\* non-zero code.
ReturncodeIsFirstNonZero ==
    \E k \in FailedContainers :
        /\ \A j \in FailedContainers : k <= j
        /\ run.result.returncode = docker[k].command.exit

\* C7 (as stated): exec launches one container per command in list order and
\* stops at the first non-zero exit; the returncode of every returned result
\* is the first non-zero exit code, or 0 if every command exited 0.
C7_ReturncodeIsFirstNonZeroExit ==
    /\ LaunchedInOrder
    /\ ExecReturned =>
          /\ FailedContainers # {} => ReturncodeIsFirstNonZero
          /\ AllExitedZero => run.result.returncode = 0

\* C7 (amended): exec launches one container per command in list order and
\* stops at the first non-zero exit; the returncode is 1 if a runtime failure
\* was caught, and otherwise the first non-zero exit code, or 0 with every
\* command having exited 0.
C7_ReturncodeIsFirstNonZeroExitUnlessFailure ==
    /\ LaunchedInOrder
    /\ ExecReturned =>
          IF run.result.exception # None THEN run.result.returncode = 1
          ELSE IF FailedContainers # {} THEN ReturncodeIsFirstNonZero
          ELSE AllExitedZero /\ run.result.returncode = 0

\* exec returned without a failure after the second of three commands exited
\* with code 2.
C7_Witness ==
    /\ ExecReturned
    /\ run.result.exception = None
    /\ Len(run.commands) = 3
    /\ Len(docker) = 2
    /\ docker[2].command.exit = 2
    /\ run.result.returncode = 2

\* C8 (as stated): the logs of a returned result hold exactly one entry per
\* launched container, in launch order, each being what that container wrote.
C8_OneLogEntryPerContainer ==
    ExecReturned =>
        /\ Len(run.result.logs) = Len(docker)
        /\ \A k \in DOMAIN docker : run.result.logs[k] = docker[k].command.out

\* The non-empty outputs of the containers k .. Len(d) whose logs were read.
RECURSIVE OutputsRead(_, _)
OutputsRead(d, k) ==
    IF k > Len(d) THEN <<>>
    ELSE IF d[k].logged /\ d[k].command.out # ""
         THEN <<d[k].command.out>> \o OutputsRead(d, k + 1)
         ELSE OutputsRead(d, k + 1)

\* C8 (amended): the logs hold, in launch order, one entry for every launched
\* container whose output was read and is not empty, followed by the stack
\* trace if a runtime failure was caught.
C8_OneLogEntryPerNonEmptyOutput ==
    run.pc \notin {"idle", "propagated"} =>
        run.result.logs =
            OutputsRead(docker, 1) \o
                (IF run.result.exception # None
                 THEN <<StackTrace(run.result.exception)>> ELSE <<>>)

\* exec returned after three containers of which the second wrote nothing.
C8_Witness ==
    /\ ExecReturned
    /\ run.result.exception = None
    /\ Len(docker) = 3
    /\ docker[2].command.out = ""
    /\ run.result.logs = <<"hello", "error">>

\* The registry holds a record for container k of the workflow of this exec.
Recorded(k) ==
    \E n \in DOMAIN containers :
        containers[n] = [workflow |-> run.workflow_id, container |-> k]

\* C9: with a registry given, a launched container is recorded under the
\* workflow id right after its creation and the record is removed right after
\* the wait; when exec has returned, whatever failed, the registry holds no
\* record of a container this exec launched.
C9_NoRecordWhenExecReturns ==
    /\ (run.pc = "wait" /\ run.registry) => Recorded(run.container)
    /\ run.pc \in {"logs", "remove"} => ~Recorded(run.container)
    /\ ExecReturned => \A k \in DOMAIN docker : ~Recorded(k)

\* C10: a failure of the runtime raised while launching, waiting, reading the
\* logs or removing a container never leaves exec: exec returns a result with
\* returncode 1, the exception stored and its trace as the last log entry.
C10_RuntimeFailureIsReturned ==
    /\ run.pc # "propagated"
    /\ (run.pc # "idle" /\ run.fault # None) =>
          /\ ExecReturned
          /\ run.result.returncode = 1
          /\ run.result.exception = run.fault
          /\ Len(run.result.logs) > 0
          /\ run.result.logs[Len(run.result.logs)] = StackTrace(run.fault)

\* exec returned after the removal of its second container failed.
C10_Witness ==
    /\ ExecReturned
    /\ run.fault = "APIError"
    /\ Len(docker) = 2
    /\ docker[2].logged
    /\ run.result.logs = <<"hello", StackTrace("APIError")>>
    /\ run.result.returncode = 1

-----------------------------------------------------------------------------
(* Properties of the task collection and of the workflow status. *)

\* The statuses of the tasks of workflow wf among the documents, in order.
RECURSIVE StatusesOf(_, _, _)
StatusesOf(docs, wf, i) ==
    IF i > Len(docs) THEN <<>>
    ELSE IF docs[i].parent = wf THEN <<docs[i].status>> \o StatusesOf(docs, wf, i + 1)
    ELSE StatusesOf(docs, wf, i + 1)

\* The aggregate status of a non-empty list of task statuses: the common
\* status if there is one, else FAILED if a task is failed, else RUNNING.
AggregateStatus(sts) ==
    IF \A i, j \in DOMAIN sts : sts[i] = sts[j] THEN sts[1]
    ELSE IF \E i \in DOMAIN sts : sts[i] = "FAILED" THEN "FAILED"
    ELSE "RUNNING"

\* list_all has returned a list of descriptors.
Listed == listed.call = "list_all" /\ listed.result.kind = "ok"

\* The descriptors list_all returned, as a set.
Descriptors == {listed.result.value[i] : i \in DOMAIN listed.result.value}

\* C15: the status list_all derives for a workflow is the aggregate of the
\* statuses of its tasks: the common status if all tasks share one, else
\* FAILED if a task is failed, else RUNNING.
C15_AggregateStatus ==
    Listed =>
        \A d \in Descriptors :
            d.status = AggregateStatus(StatusesOf(listed.docs, d.workflow_id, 1))

\* list_all has reported a workflow with tasks [DONE, FAILED, RUNNING] as
\* failed.
C15_Witness ==
    /\ Listed
    /\ \E d \in Descriptors :
          /\ StatusesOf(listed.docs, d.workflow_id, 1) = <<"DONE", "FAILED", "RUNNING">>
          /\ d.status = "FAILED"

\* The status of the task with the id in the collection, None if there is
\* no such task.
StatusOf(coll, task_id) ==
    IF \E i \in DOMAIN coll : coll[i].id = task_id
    THEN coll[CHOOSE i \in DOMAIN coll : coll[i].id = task_id].status
    ELSE None

\* The steps of the status of a task.
StatusSteps ==
    { <<"PENDING", "RUNNING">>, <<"RUNNING", "DONE">>, <<"RUNNING", "FAILED">> }

\* C16: the persisted status of a task moves only along PENDING -> RUNNING ->
\* {DONE, FAILED}: no update changes the status of a task that is done or
\* failed, moves a task backwards or takes it from PENDING to DONE.
C16_StatusMovesForward ==
    [][ \A id \in AllTaskIds \cup {"t0"} :
            StatusOf(tasks, id) # None =>
                \/ StatusOf(tasks', id) = StatusOf(tasks, id)
                \/ <<StatusOf(tasks, id), StatusOf(tasks', id)>> \in StatusSteps ]_vars

\* The parents of the documents list_all read.
Parents == {listed.docs[i].parent : i \in DOMAIN listed.docs}

\* The updated_at of the tasks of workflow wf among the documents read.
UpdatesOf(wf) == {listed.docs[i].updated_at : i \in {j \in DOMAIN listed.docs : listed.docs[j].parent = wf}}

\* C19: list_all returns one descriptor per parent workflow id that has a
\* task, with the aggregate status of its tasks and the latest updated_at of
\* its tasks as last_update; with active=true it returns exactly those of
\* them whose aggregate status is RUNNING.
C19_ListAllDescriptors ==
    Listed =>
        /\ \A i, j \in DOMAIN listed.result.value :
              listed.result.value[i].workflow_id = listed.result.value[j].workflow_id => i = j
        /\ {d.workflow_id : d \in Descriptors} =
              {wf \in Parents :
                  listed.active => AggregateStatus(StatusesOf(listed.docs, wf, 1)) = "RUNNING"}
        /\ \A d \in Descriptors :
              /\ d.status = AggregateStatus(StatusesOf(listed.docs, d.workflow_id, 1))
              /\ d.last_update \in UpdatesOf(d.workflow_id)
              /\ \A ts \in UpdatesOf(d.workflow_id) : ts <= d.last_update

\* list_all(active=true) has returned the descriptor of wf1 alone, two tasks
\* of which were updated at different times.
C19_Witness ==
    /\ Listed
    /\ listed.active
    /\ Parents = {"wf0", "wf1"}
    /\ Len(listed.result.value) = 1
    /\ listed.result.value[1].workflow_id = "wf1"
    /\ Cardinality(UpdatesOf("wf1")) > 1

-----------------------------------------------------------------------------
(* Properties of revoke. *)

\* The k-th revoke call returns in this step.
RevokeReturns(k) == k \in DOMAIN rev /\ rev[k].pc = "stopping" /\ rev'[k].pc = "done"

\* C17 (as stated): a revoke call, the first one and the one that follows
\* it, returns without an error, and when it returns the running-container
\* registry holds no record for the workflow.
C17_NoRecordAfterRevoke ==
    [][ \A c \in DOMAIN rev :
            RevokeReturns(c) =>
                /\ rev'[c].result = "ok"
                /\ FindAll(containers', rev[c].workflow) = <<>> ]_vars

\* C17 (amended): a revoke call, the first one and the one that follows it,
\* returns without an error, and when it returns the running-container
\* registry holds no record of the workflow that was there at the scan of
\* the call.
C17_NoScannedRecordAfterRevoke ==
    [][ \A c \in DOMAIN rev :
            RevokeReturns(c) =>
                /\ rev'[c].result = "ok"
                /\ \A n \in DOMAIN rev[c].records :
                      rev[c].records[n].workflow = rev[c].workflow =>
                          \A k \in DOMAIN containers' : containers'[k] # rev[c].records[n] ]_vars

\* revoke was called twice for wf1 and has returned twice; the first call
\* stopped the container of the workflow.
C17_Witness ==
    /\ revokeLog = <<"wf1", "wf1">>
    /\ \A c \in DOMAIN rev : rev[c].pc = "done"
    /\ rev[1].stops = <<1>>
    /\ rev[2].ids = <<>>
    /\ Len(docker) = 1
    /\ docker[1].stopped
    /\ FindAll(containers, "wf1") = <<>>

\* The stop requests the c-th revoke call has issued, as a set.
Stops(c) == {rev[c].stops[i] : i \in DOMAIN rev[c].stops}

\* C18: revoke marks the workflow revoked and issues a stop request for every
\* container recorded under the workflow at its scan and for no container
\* recorded under another workflow; it returns without an error when a
\* listed container has finished before the stop.
C18_StopsContainersOfWorkflow ==
    \A c \in DOMAIN rev :
        /\ IsRevoked(rev[c].workflow)
        /\ \A id \in Stops(c) :
              \A n \in DOMAIN rev[c].records :
                  rev[c].records[n].container = id => rev[c].records[n].workflow = rev[c].workflow
        /\ rev[c].pc = "done" =>
              /\ rev[c].result = "ok"
              /\ Stops(c) = {rev[c].records[n].container :
                                n \in {k \in DOMAIN rev[c].records :
                                          rev[c].records[k].workflow = rev[c].workflow}}

\* revoke has returned after a stop request for a container that had
\* finished by itself after the scan.
C18_Witness ==
    \E c \in DOMAIN rev :
        /\ rev[c].pc = "done"
        /\ rev[c].workflow = "wf1"
        /\ rev[c].stops = <<1>>
        /\ 1 \in rev[c].running
        /\ docker[1].status = "exited"
        /\ ~docker[1].stopped
        /\ \E n \in DOMAIN rev[c].records : rev[c].records[n].workflow = "wf2"

-----------------------------------------------------------------------------
(* Properties of monitor.run. *)

\* A task of the list is failed.
SomeFailed(found) == \E i \in DOMAIN found : found[i].status = "FAILED"

\* Every task of the list is done.
AllDone(found) == \A i \in DOMAIN found : found[i].status = "DONE"

\* C11: run terminates (returns or raises) at the first poll at which every
\* task is DONE or a task is FAILED, whatever the other tasks: it is never
\* about to poll again after a poll that read such a list.
C11_TerminatesAtTerminalPoll ==
    (mon.pc = "sleep" /\ mon.polls > 0) => ~(SomeFailed(mon.tasks) \/ AllDone(mon.tasks))

\* The round of the last poll is over: run is not at or in its revoke call.
RoundOver == mon.pc \in {"sleep", "returned", "raised"}

\* The revoke calls that run itself has made.
OwnRevokes == {c \in DOMAIN rev : rev[c].caller = "run"}

\* The list holds a revocation task that another caller than run recorded.
RevokedByOther(found) ==
    \E i \in DOMAIN found, c \in DOMAIN rev : found[i].id = RevokeIds[c] /\ rev[c].caller # "run"

\* C12: with raise_error=True, a poll that reads a FAILED task makes run
\* raise an error with the result message of (the first) failed task, and
\* revoke has been invoked exactly once for the workflow when it raises: by
\* run itself, or, when the poll read the revocation another caller had
\* recorded before, by that caller and not by run.  With no other caller the
\* one invocation of run is the only one.
C12_RaisesAfterOneRevoke ==
    /\ (mon.pc # "idle" /\ mon.raise_error /\ SomeFailed(mon.tasks) /\ RoundOver) =>
            mon.pc = "raised"
    /\ mon.pc = "raised" =>
          /\ \E i \in DOMAIN mon.tasks :
                /\ mon.tasks[i].status = "FAILED"
                /\ \A j \in 1 .. i - 1 : mon.tasks[j].status # "FAILED"
                /\ mon.error = mon.tasks[i].message
          /\ revokeLog # <<>>
          /\ \A k \in DOMAIN revokeLog : revokeLog[k] = mon.wf
          /\ Cardinality(OwnRevokes) = IF RevokedByOther(mon.tasks) THEN 0 ELSE 1
          /\ OwnRevokes = DOMAIN rev => revokeLog = <<mon.wf>>

\* run has raised the error of the second task of the request, the first
\* one being done, after the one revoke call there was, its own.
C12_Witness ==
    /\ mon.pc = "raised"
    /\ mon.n = 2
    /\ Len(mon.tasks) = 2
    /\ mon.tasks[1].status = "DONE"
    /\ mon.tasks[2].status = "FAILED"
    /\ mon.error = mon.tasks[2].message
    /\ revokeLog = <<"wf1">>
    /\ OwnRevokes = {1}
    /\ rev[1].pc = "done"

\* C13: with raise_error=False, run invokes revoke at the first poll that
\* reads a FAILED task (a poll that reads a revocation already recorded
\* skips it) and at most once over the whole run call: a later poll that
\* reads the failed task again does not revoke.
C13_RevokesOnce ==
    (mon.pc # "idle" /\ ~mon.raise_error) =>
        /\ Cardinality(OwnRevokes) <= 1
        /\ mon.revoked = Cardinality(OwnRevokes)
        /\ (SomeFailed(mon.tasks) /\ RoundOver) =>
              \/ Cardinality(OwnRevokes) = 1
              \/ RevokedByOther(mon.tasks)

\* run has revoked the workflow at one poll and is about to poll again
\* after a later poll that read the failed task and the revocation task:
\* the revoke call of run is the only one.
C13_Witness ==
    /\ mon.pc = "sleep"
    /\ ~mon.raise_error
    /\ mon.polls >= 2
    /\ SomeFailed(mon.tasks)
    /\ ~NeedsRevoke(mon.tasks)
    /\ revokeLog = <<"wf1">>
    /\ OwnRevokes = {1}

\* C14: when run returns, the list it returns holds every task of the
\* request, and all of its tasks are DONE or one of them is FAILED: it is
\* never an empty or partial list read before the tasks were persisted.
C14_ReturnsEveryTask ==
    mon.pc = "returned" =>
        /\ \A k \in 1 .. mon.n : \E i \in DOMAIN mon.result : mon.result[i].id = TaskIds[k]
        /\ AllDone(mon.result) \/ SomeFailed(mon.result)

-----------------------------------------------------------------------------
(* The sandbox. *)

\* The folder is bound to the target in the bindings of a sandbox.
Bound(bound, path, target) == \E k \in DOMAIN bound : bound[k] = <<path, target>>

\* The folder is mounted at the target in the volumes of a container.
Mounted(volumes, path, target) ==
    \E k \in DOMAIN volumes : volumes[k] = <<path, [bind |-> "/" \o target, mode |-> "rw"]>>

\* The last call of bind or copy came after an exec call had returned.
PreparedAfterExec == sandbox.last.op \in {"bind", "copy"} /\ sandbox.last.execs > 0

\* C20 as stated: a sandbox is single-use, so at most one exec call is made
\* on it, and a bind or a copy that follows an exec call is not accepted.
C20_SingleUse ==
    /\ ExecCalls <= 1
    /\ PreparedAfterExec => sandbox.last.result.kind # "ok"

\* C20 amended: one exec call only moves forward (its position in the command
\* list never decreases, its volumes are fixed at the call, and once returned
\* it stays returned), but the sandbox is not single-use: a bind after an exec
\* call behaves as one before it (an existing folder, or one that is created,
\* is bound to the target), and every container is started with the volumes
\* of the exec call that starts it, the bindings the sandbox had at the call.
C20_ForwardWithinOneCall ==
    [][ /\ (run.pc # "idle" /\ run'.call = run.call) =>
              /\ run'.i >= run.i
              /\ run'.volumes = run.volumes
              /\ run.pc = "done" => run'.pc = "done"
        /\ (run'.pc # "idle" /\ (run.pc = "idle" \/ run'.call # run.call)) =>
              /\ run.pc \in {"idle", "done"}
              /\ run'.call = ExecCalls + 1
              /\ run'.volumes = Volumes(sandbox.volumes)
        /\ (sandbox' # sandbox /\ sandbox'.last.op = "bind") =>
              /\ sandbox'.last.result.kind = "ok" <=>
                    \/ sandbox'.last.path \in sandbox.dirs
                    \/ Ancestors(sandbox'.last.path) \cap sandbox.files = {}
                         /\ sandbox'.last.path \in sandbox'.dirs \ sandbox.dirs
              /\ sandbox'.last.result.kind = "ok" =>
                    Bound(sandbox'.volumes, sandbox'.last.path, sandbox'.last.target)
        /\ \A c \in DOMAIN docker' \ DOMAIN docker :
              /\ docker'[c].call = run.call
              /\ docker'[c].volumes = run.volumes
      ]_vars

\* A second exec call on the sandbox has returned after starting a container
\* with a folder mounted that was bound after the first exec call returned.
C20_Witness ==
    /\ run.pc = "done"
    /\ run.call = 2
    /\ sandbox.last.op = "bind"
    /\ sandbox.last.execs = 1
    /\ sandbox.last.result.kind = "ok"
    /\ \E c \in DOMAIN docker :
          /\ docker[c].call = 2
          /\ Mounted(docker[c].volumes, sandbox.last.path, sandbox.last.target)
          /\ \A d \in DOMAIN docker : docker[d].call = 1 =>
                ~Mounted(docker[d].volumes, sandbox.last.path, sandbox.last.target)
-----------------------------------------------------------------------------
(* The spec-model invariant. *)

\* name, image and commands are present and not empty, and no two parameters
\* carry the same name.
SpecModelInvariant(spec) ==
    /\ {"name", "image", "commands"} \subseteq DOMAIN spec
    /\ spec["name"] # ""
    /\ spec["image"] # ""
    /\ spec["commands"] # <<>>
    /\ LET pars == Get(spec, "parameters", <<>>)
       IN  \A i, j \in DOMAIN pars :
              ("name" \in DOMAIN pars[i] /\ "name" \in DOMAIN pars[j] /\ i # j) =>
                  pars[i]["name"] # pars[j]["name"]

\* C25: every operator spec a registry holds satisfies the spec-model
\* invariant, and a put_op or register of a spec that violates it is rejected.
C25_StoredSpecsAreValid ==
    /\ \A i \in DOMAIN catalog : SpecModelInvariant(catalog[i].spec)
    /\ \A i \in DOMAIN operators : SpecModelInvariant(operators[i][2].doc)
    /\ (lastP.call.call = "put_op" /\ ~SpecModelInvariant(lastP.call.spec)) =>
            lastP.result.kind # "ok"

\* The target of a copy: dst, or the name of src, below the base directory.
CopyTarget(src, dst) == JoinPath(sandbox.basedir, IF dst # <<>> THEN dst ELSE <<PathName(src)>>)

\* The file src is in the sandbox sb at the target, or inside the target when
\* the target was a directory of the sandbox before.
FileCopied(before, sb, src, target) ==
    IF target \in before.dirs THEN target \o <<PathName(src)>> \in sb.files
    ELSE target \in sb.files

\* Every folder and file of the tree src is in the sandbox sb below target.
TreeCopied(sb, src, target) ==
    /\ \A d \in sb.dirs : IsBelow(d, src) => Moved(d, src, target) \in sb.dirs
    /\ \A f \in sb.files : IsBelow(f, src) => Moved(f, src, target) \in sb.files

\* The step is a call of copy.
CopyStep == sandbox'.ncalls # sandbox.ncalls /\ sandbox'.last.op = "copy"

\* C26 as stated: copy of a directory fails with ValueError when recursive is
\* false and copies the directory when recursive is true, and copy of a file
\* copies it for either value of recursive.
C26_CopyByKindOfSource ==
    [][ CopyStep =>
          LET call   == sandbox'.last
              target == CopyTarget(call.path, call.dst)
          IN  /\ (call.path \in sandbox.dirs /\ ~call.recursive) =>
                    call.result.kind = "ValueError"
              /\ (call.path \in sandbox.dirs /\ call.recursive) =>
                    call.result.kind = "ok" /\ TreeCopied(sandbox', call.path, target)
              /\ call.path \in sandbox.files =>
                    call.result.kind = "ok" /\ FileCopied(sandbox, sandbox', call.path, target)
      ]_vars

\* C26 amended: copy first makes the parent folder of the target, and fails
\* with FileExistsError, copying nothing, when that parent is a file.
\* Otherwise a directory with recursive false fails with ValueError and
\* copies nothing; a directory with recursive true is copied when nothing
\* exists at the target, and fails with FileExistsError, copying nothing,
\* when something does; a file is copied for either value of recursive, into
\* the target when the target is a directory, unless a directory of its name
\* is there.
C26_CopyByKindOfSourceAndTarget ==
    [][ CopyStep =>
          LET call   == sandbox'.last
              target == CopyTarget(call.path, call.dst)
              parent == ParentPath(target)
              taken  == target \in sandbox.dirs \/ target \in sandbox.files
              same   == sandbox'.files = sandbox.files
          IN  IF Ancestors(parent) \cap sandbox.files # {}
              THEN call.result.kind \in {"FileExistsError", "NotADirectoryError"}
                     /\ same /\ sandbox'.dirs = sandbox.dirs
              ELSE /\ (call.path \in sandbox.dirs /\ ~call.recursive) =>
                        call.result.kind = "ValueError" /\ same
                   /\ (call.path \in sandbox.dirs /\ call.recursive /\ ~taken) =>
                        call.result.kind = "ok" /\ TreeCopied(sandbox', call.path, target)
                   /\ (call.path \in sandbox.dirs /\ call.recursive /\ taken) =>
                        call.result.kind = "FileExistsError" /\ same
                   /\ (call.path \in sandbox.files
                         /\ ~(target \in sandbox.dirs
                                /\ target \o <<PathName(call.path)>> \in sandbox.dirs)) =>
                        /\ call.result.kind = "ok"
                        /\ FileCopied(sandbox, sandbox', call.path, target)
      ]_vars

\* A directory has been copied into the sandbox with recursive true, and a
\* second copy of it to the same target has failed.
C26_Witness ==
    /\ sandbox.last.op = "copy"
    /\ sandbox.last.recursive
    /\ sandbox.last.path \in sandbox.dirs
    /\ sandbox.last.result.kind = "FileExistsError"
    /\ TreeCopied(sandbox, sandbox.last.path, CopyTarget(sandbox.last.path, sandbox.last.dst))
-----------------------------------------------------------------------------
(* get_dockerfile. *)

\* The Dockerfile get_dockerfile looks for is in the source directory.
DockerfileExists ==
    /\ lastBuild.call = "get_dockerfile"
    /\ Get(lastBuild.spec, "dockerfile", "Dockerfile") \in DOMAIN lastBuild.source

\* The lines of the Dockerfile get_dockerfile looks for, as they are in the file.
DockerfileLines == lastBuild.source[Get(lastBuild.spec, "dockerfile", "Dockerfile")]

\* The line without its line terminator.
Chomp(raw) ==
    IF raw # <<>> /\ raw[Len(raw)] = "\n" THEN SubSeq(raw, 1, Len(raw) - 1) ELSE raw

\* s is raw without the whitespace at its two ends.
IsStripOf(s, raw) ==
    /\ s # <<>> => s[1] \notin Whitespace /\ s[Len(s)] \notin Whitespace
    /\ \E a \in 0 .. Len(raw) :
          /\ a + Len(s) <= Len(raw)
          /\ SubSeq(raw, a + 1, a + Len(s)) = s
          /\ \A k \in 1 .. Len(raw) : (k <= a \/ k > a + Len(s)) => raw[k] \in Whitespace

\* C28 as stated: when the Dockerfile exists, get_dockerfile returns its lines,
\* whatever else the spec declares, and writes nothing to the target directory.
C28_ReturnsLinesOfDockerfile ==
    DockerfileExists =>
        /\ lastBuild.result.kind = "ok"
        /\ Len(lastBuild.result.value) = Len(DockerfileLines)
        /\ \A i \in DOMAIN DockerfileLines : lastBuild.result.value[i] = Chomp(DockerfileLines[i])
        /\ DOMAIN lastBuild.target = {}

\* C28 amended: when the Dockerfile exists, get_dockerfile returns one line
\* per line of the file, in order, each without the whitespace at its two ends
\* (an indented line loses its indentation, a blank line is returned empty),
\* whatever else the spec declares, and writes nothing to the target directory.
C28_ReturnsStrippedLinesOfDockerfile ==
    DockerfileExists =>
        /\ lastBuild.result.kind = "ok"
        /\ Len(lastBuild.result.value) = Len(DockerfileLines)
        /\ \A i \in DOMAIN DockerfileLines :
                IsStripOf(lastBuild.result.value[i], DockerfileLines[i])
        /\ DOMAIN lastBuild.target = {}

\* get_dockerfile has returned the lines of an indented Dockerfile for a spec
\* that declares a base image, requirements and files.
C28_Witness ==
    /\ DockerfileExists
    /\ {"baseImage", "requirements", "files", "dockerfile"} \subseteq DOMAIN lastBuild.spec
    /\ lastBuild.spec["requirements"] # <<>>
    /\ DockerfileLines = LinesIndented
    /\ lastBuild.result.kind = "ok"
    /\ lastBuild.result.value = << <<"A", " ", "\\">>, <<"B">>, <<>> >>

\* No Dockerfile is in the source directory for the call.
DockerfileGenerated == lastBuild.call = "get_dockerfile" /\ ~DockerfileExists

\* The entry written for a declared package.
PackageEntry(pkg) ==
    "install.packages(\"" \o pkg["name"] \o "\", dependencies="
        \o (IF "dependencies" \in DOMAIN pkg /\ ~pkg["dependencies"] THEN "FALSE" ELSE "TRUE")
        \o ", repos=\""
        \o (IF "repos" \in DOMAIN pkg THEN pkg["repos"] ELSE "https://cran.r-project.org")
        \o "\")"

\* The dependencies the spec declares for its base image, one entry each, the
\* name of the dependency file and the two lines that install it.
Dependencies(spec) ==
    IF spec["baseImage"] \in PythonBaseImages
    THEN [ entries |-> Get(spec, "requirements", <<>>),
           file |-> "requirements.txt",
           lines |-> << "COPY requirements.txt requirements.txt",
                        "RUN pip install -r requirements.txt" >> ]
    ELSE LET packages == Get(spec, "packages", <<>>)
         IN  [ entries |-> [i \in DOMAIN packages |-> PackageEntry(packages[i])],
               file |-> "install_packages.R",
               lines |-> << "COPY install_packages.R install_packages.R",
                            "RUN Rscript install_packages.R" >> ]

\* Every declared package carries the mandatory name.
PackagesNamed(spec) ==
    \A i \in DOMAIN Get(spec, "packages", <<>>) : "name" \in DOMAIN spec["packages"][i]

\* C29: without a Dockerfile in the source, get_dockerfile returns, for a
\* supported base image, the FROM line, one COPY line per declared file in
\* declaration order and then, only if dependencies are declared, the COPY
\* and RUN lines of the dependency file, which holds one entry per declared
\* dependency in declaration order and is not written otherwise; for any
\* other base image it raises an error and writes nothing.
C29_GeneratesDockerfile ==
    DockerfileGenerated =>
        LET spec  == lastBuild.spec
            files == Get(spec, "files", <<>>)
            base  == Get(spec, "baseImage", None)
        IN  IF base \in PythonBaseImages \cup RBaseImages
            THEN PackagesNamed(spec) =>
                   LET deps  == Dependencies(spec)
                       lines == lastBuild.result.value
                   IN  /\ lastBuild.result.kind = "ok"
                       /\ lines[1] = "FROM " \o base
                       /\ \A i \in DOMAIN files :
                            lines[1 + i] = "COPY " \o files[i]["src"] \o " " \o files[i]["dst"]
                       /\ IF deps.entries # <<>>
                          THEN /\ Len(lines) = 1 + Len(files) + 2
                               /\ SubSeq(lines, Len(files) + 2, Len(files) + 3) = deps.lines
                               /\ DOMAIN lastBuild.target = {deps.file}
                               /\ lastBuild.target[deps.file] = deps.entries
                          ELSE /\ Len(lines) = 1 + Len(files)
                               /\ DOMAIN lastBuild.target = {}
            ELSE /\ lastBuild.result.kind = "ValueError"
                 /\ DOMAIN lastBuild.target = {}

\* A Dockerfile has been generated for a Python base image with two files and
\* two requirements, and one for an R base image with two packages.
C29_Witness ==
    /\ DockerfileGenerated
    /\ lastBuild.result.kind = "ok"
    /\ \/ /\ lastBuild.spec["baseImage"] = "python:3.8"
          /\ lastBuild.result.value =
                << "FROM python:3.8", "COPY code/ code/", "COPY data/names.txt inputs/data.txt",
                   "COPY requirements.txt requirements.txt",
                   "RUN pip install -r requirements.txt" >>
          /\ lastBuild.target["requirements.txt"] = <<"package1", "package2">>
       \/ /\ lastBuild.spec["baseImage"] = "rocker/r-ver"
          /\ Len(lastBuild.result.value) = 4
          /\ lastBuild.result.value[2] = "COPY code/ code/"
          /\ lastBuild.target["install_packages.R"] =
                << "install.packages(\"package1\", dependencies=FALSE, repos=\"https://cran.r-project.org\")",
                   "install.packages(\"package2\", dependencies=TRUE, repos=\"repo-x\")" >>
-----------------------------------------------------------------------------
(* register and the temporary clone. *)

\* The register call has returned or raised.
RegisterFinished == regcall.pc = "done"

\* C27: a temporary folder made for a clone is on the disk only while the
\* register call that made it runs, so that it is gone when register has
\* finished, whether the registration succeeded or failed, and a local
\* source directory is passed through and never deleted.
C27_TemporaryCloneRemoved ==
    /\ LocalSource \in disk
    /\ regcall.pc \notin {"idle", "done"} =>
            /\ regcall.temp # None => regcall.temp \in disk /\ regcall.sourcedir = regcall.temp
            /\ regcall.temp = None => regcall.sourcedir = regcall.source
    /\ RegisterFinished => (regcall.sourcedir \in disk <=> regcall.temp = None)
    /\ \A n \in 1 .. regcall.mkdtemp :
            MkDTemp(n) \in disk =>
                \/ regcall.pc # "done" /\ MkDTemp(n) \in {regcall.temp, regcall.build}
                \/ MkDTemp(n) \in regcall.leaked

\* The second register call of the behaviour, on the remote source, has
\* cloned it into a temporary folder, failed with AlreadyExists in its body
\* and finished.
C27_Witness ==
    /\ RegisterFinished
    /\ disk = {LocalSource}
    /\ ncalls = 2
    /\ regcall.source = RemoteSource
    /\ regcall.cloned
    /\ regcall.temp # None
    /\ regcall.result = Raise("ValueError", "operator exists")
-----------------------------------------------------------------------------
(* Properties of execute. *)

\* The execute calls that have ended.
Calls == DOMAIN exe.history

\* The container run of a call succeeded: run.exec returned the code 0.
RunSucceeded(h) == h.exec = <<0>>

\* The tags under which the context holds a resource.
ContextTags(context) == {context[i][2] : i \in DOMAIN context}

\* C21: when the container run of an execute call succeeded, the call
\* returned a TaskResult with one resource handle per declared output of the
\* operator.
C21_OneHandlePerOutput ==
    \A k \in Calls :
        LET h == exe.history[k]
        IN  RunSucceeded(h) =>
                /\ h.result.kind = "ok"
                /\ Len(h.result.value.files) = Len(h.outputs)

\* The tag of a source that is a label.
IsLabel(src) == Len(src) = 1

MissingInput == Raise("ValueError", "unknown resource")

\* The containers an execute call launched.
Launched(h) == h.first .. h.last

\* Every declared input was resolved and copied into the sandbox.
InputsCopied(inputs, copied) ==
    /\ Len(copied) = Len(inputs)
    /\ \A i \in DOMAIN copied : copied[i].result.kind = "ok" /\ copied[i].present

\* The first input of the call is a label that the context did not hold.
LabelMissing(h) ==
    /\ h.known
    /\ h.inputs # <<>>
    /\ IsLabel(h.inputs[1])
    /\ h.inputs[1][1] \notin ContextTags(h.before)

LastCall == exe.history[Len(exe.history)]

\* The container run of a call returned a code other than 0.
RunFailed(h) == h.exec # <<>> /\ h.exec # <<0>>

\* C24: when the container run of an execute call returned a non-zero code,
\* the call raised an exception with the joined logs, changed neither the
\* persistent storage nor the context, and launched the commands up to the
\* failing one once each, in order.
C24_FailedRunRaises ==
    /\ \A k \in Calls :
          LET h == exe.history[k]
          IN  RunFailed(h) => h.result.kind = "Exception" /\ ~ h.stored /\ h.context = h.before
    /\ (exe.pc = "done" /\ exe.history # <<>> /\ RunFailed(LastCall)) =>
          /\ LastCall.result = Raise("Exception", Join(run.result.logs))
          /\ LastCall.last < LastCall.first + Len(run.commands)
          /\ \A c \in Launched(LastCall) : docker[c].command = run.commands[c + 1 - LastCall.first]

\* The first of the two commands of an operator exited with the code 2: the
\* call raised the exception and the second command was not launched.
C24_Witness ==
    /\ exe.pc = "done"
    /\ exe.history # <<>>
    /\ LastCall.exec = <<2>>
    /\ LastCall.result = Raise("Exception", "error")
    /\ Len(run.commands) = 2
    /\ LastCall.last = LastCall.first

InvalidReference == Raise("ValueError", "invalid source file specification")

\* The inputs the execute calls that have ended went through, each with the
\* context of its call.
Resolutions ==
    UNION {{[ copy |-> exe.history[k].copied[i], context |-> exe.history[k].before,
              storage |-> exe.history[k].storage ] :
                i \in DOMAIN exe.history[k].copied} : k \in Calls}

\* The scheme of a source: that of a label is the context.
Scheme(src) == IF IsLabel(src) THEN "context" ELSE src[1]

\* C30: an input is resolved by the scheme of its source: store, rundir and
\* context (or a label) are resolved, and a source with another scheme fails
\* with InvalidReference without a copy.
C30_ResolvedByScheme ==
    \A r \in Resolutions :
        IF Scheme(r.copy.src) \in {"store", "rundir", "context"}
        THEN r.copy.result # InvalidReference
        ELSE r.copy.result = InvalidReference /\ ~ r.copy.changed

\* C30 (amended): an input is resolved by the form of its source: a label is
\* looked up in the context and fails with MissingInput when the context does
\* not hold it, a source with the prefix store is taken from the global
\* store by the get_file of the storage (copied when the storage has the
\* method and the store holds the file), and a source with any other prefix
\* fails with InvalidReference without a copy.
C30_ResolvedByForm ==
    \A r \in Resolutions :
        LET src == r.copy.src
            result == r.copy.result
        IN  IF IsLabel(src)
            THEN /\ result # InvalidReference
                 /\ result = MissingInput <=> src[1] \notin ContextTags(r.context)
                 /\ result.kind = "ok" =>
                        /\ r.copy.present
                        /\ \E i \in DOMAIN r.context :
                              /\ r.context[i][2] = src[1]
                              /\ r.context[i][1].resource = result.value.resource
            ELSE IF src[1] = "store"
            THEN /\ result # InvalidReference
                 /\ (r.storage # "FileSystemStore" /\ StoreDir \o Tail(src) \in sandbox.files) =>
                        /\ result = Ok([resource |-> StoreDir \o Tail(src)])
                        /\ r.copy.present
            ELSE result = InvalidReference /\ ~ r.copy.changed

\* One input with the prefix rundir has failed with InvalidReference and one
\* input that is a label has been copied from the resource of the context.
C30_Witness ==
    \E r \in Resolutions, s \in Resolutions :
        /\ r.copy.src[1] = "rundir"
        /\ r.copy.result = InvalidReference
        /\ IsLabel(s.copy.src)
        /\ s.copy.result.kind = "ok"
        /\ s.copy.present

-----------------------------------------------------------------------------
(* Frame of a failed put_op. *)

\* The step is a put_op call.
PutOpStep == ncalls' = ncalls + 1 /\ lastP'.call.call = "put_op"

\* C35: a put_op that fails with AlreadyExists leaves the registry as it
\* was: the entry under the identifier and every other entry.
C35_FailedPutOpChangesNothing ==
    [][ PutOpStep =>
            /\ lastP'.result = AlreadyExists => catalog' = catalog
            /\ lastV'.result = AlreadyExists => operators' = operators ]_vars

\* A put_op without replace on an identifier both registries hold has failed
\* with AlreadyExists on both.
C35_Witness ==
    /\ lastP.call.call = "put_op"
    /\ ~ lastP.call.replace
    /\ lastP.result = AlreadyExists
    /\ lastV.result = AlreadyExists
    /\ CatalogEntries(lastP.call.identifier) # {}
    /\ DictEntries(lastP.call.identifier) # {}

-----------------------------------------------------------------------------
(* register over a manifest. *)

\* The step is a register call.
RegisterStep == ncalls' = ncalls + 1 /\ lastP'.call.call = "register"

\* The put_op of the n-th operator of a manifest on a registry: the outcome
\* of the identifier when it cannot be formed.
PutNthP(cat, doc, replace, n) ==
    LET id == OpId(Get(doc, "namespace", None), doc["operators"][n])
    IN  IF id.kind # "ok" THEN [catalog |-> cat, result |-> id]
        ELSE PersistentPutOp(cat, id.value, Get(doc, "version", None), doc["operators"][n], replace)

PutNthV(ops, doc, replace, n) ==
    LET id == OpId(Get(doc, "namespace", None), doc["operators"][n])
    IN  IF id.kind # "ok" THEN [operators |-> ops, result |-> id]
        ELSE VolatilePutOp(ops, id.value, Get(doc, "version", None), doc["operators"][n], replace)

\* The registry after the put_op calls of the first n operators of a
\* manifest.
RECURSIVE AfterPutsP(_, _, _, _)
AfterPutsP(cat, doc, replace, n) ==
    IF n = 0 THEN cat ELSE PutNthP(AfterPutsP(cat, doc, replace, n - 1), doc, replace, n).catalog

RECURSIVE AfterPutsV(_, _, _, _)
AfterPutsV(ops, doc, replace, n) ==
    IF n = 0 THEN ops ELSE PutNthV(AfterPutsV(ops, doc, replace, n - 1), doc, replace, n).operators

\* The outcome of a register call on a manifest with m operators fits n
\* operators registered: the list of n identifiers when n = m, the failure of
\* the put_op of operator n + 1 otherwise.
FitsP(cat, doc, replace, result, n) ==
    /\ \A j \in 1 .. n : PutNthP(AfterPutsP(cat, doc, replace, j - 1), doc, replace, j).result.kind = "ok"
    /\ IF n = Len(Get(doc, "operators", <<>>))
       THEN result.kind = "ok" /\ Len(result.value) = n
       ELSE LET p == PutNthP(AfterPutsP(cat, doc, replace, n), doc, replace, n + 1)
            IN  p.result.kind # "ok" /\ result = p.result

FitsV(ops, doc, replace, result, n) ==
    /\ \A j \in 1 .. n : PutNthV(AfterPutsV(ops, doc, replace, j - 1), doc, replace, j).result.kind = "ok"
    /\ IF n = Len(Get(doc, "operators", <<>>))
       THEN result.kind = "ok" /\ Len(result.value) = n
       ELSE LET p == PutNthV(AfterPutsV(ops, doc, replace, n), doc, replace, n + 1)
            IN  p.result.kind # "ok" /\ result = p.result

\* C36: a register call whose image build fails registers no operator, and
\* one whose put_op fails for operator k leaves the operators before k
\* registered, registers none after k and returns no list of identifiers.
C36_RegisterIsNotAtomic ==
    [][ RegisterStep =>
            LET doc == lastP'.call.doc
                replace == lastP'.call.replace
                m == Len(Get(doc, "operators", <<>>))
                built == BuildImages(Get(doc, "dockerImages", <<>>), lastP'.call.sourcedir,
                                     lastP'.call.daemon, 1).result
            IN  IF built.kind # "ok"
                THEN /\ catalog' = catalog /\ lastP'.result = built
                     /\ operators' = operators /\ lastV'.result = built
                ELSE /\ \E n \in 0 .. m :
                          /\ catalog' = AfterPutsP(catalog, doc, replace, n)
                          /\ FitsP(catalog, doc, replace, lastP'.result, n)
                     /\ \E n \in 0 .. m :
                          /\ operators' = AfterPutsV(operators, doc, replace, n)
                          /\ FitsV(operators, doc, replace, lastV'.result, n) ]_vars

\* The first register call, of a manifest whose two operators have the same
\* identifier, has failed with AlreadyExists at the second and left the first
\* registered.
C36_Witness ==
    /\ ncalls = 1
    /\ lastP.call.call = "register"
    /\ Len(Get(lastP.call.doc, "operators", <<>>)) = 2
    /\ lastP.result = AlreadyExists
    /\ lastV.result = AlreadyExists
    /\ Len(catalog) = 1
    /\ Len(operators) = 1

-----------------------------------------------------------------------------
(* The aggregate status as a function of the set of task statuses. *)

\* The set of the statuses of the tasks of workflow wf that list_all read.
StatusSet(wf) ==
    LET sts == StatusesOf(listed.docs, wf, 1) IN {sts[i] : i \in DOMAIN sts}

\* C37: the aggregate status of a workflow follows from the set of the
\* statuses of its tasks: FAILED iff a task is failed, DONE iff every task is
\* done, PENDING iff every task is pending, and RUNNING in every other case.
C37_StatusFromSetOfStatuses ==
    Listed =>
        \A d \in Descriptors :
            LET S == StatusSet(d.workflow_id)
            IN  /\ S # {} /\ S \subseteq TaskStatuses
                /\ d.status = STATUS_FAILED <=> STATUS_FAILED \in S
                /\ d.status = STATUS_DONE <=> S = {STATUS_DONE}
                /\ d.status = STATUS_PENDING <=> S = {STATUS_PENDING}
                /\ d.status = STATUS_RUNNING <=>
                        /\ STATUS_FAILED \notin S
                        /\ S # {STATUS_DONE}
                        /\ S # {STATUS_PENDING}

\* list_all has reported a workflow of three tasks that are pending and
\* done, none running, as running.
C37_Witness ==
    /\ Listed
    /\ \E d \in Descriptors :
          /\ StatusSet(d.workflow_id) = {STATUS_PENDING, STATUS_DONE}
          /\ Len(StatusesOf(listed.docs, d.workflow_id, 1)) = 3
          /\ d.status = STATUS_RUNNING

-----------------------------------------------------------------------------
(* The containers of one exec call. *)

\* The containers that are running.
Running == {k \in DOMAIN docker : docker[k].status = "running"}

\* The records the registry holds of containers this exec launched.
OwnRecords ==
    {n \in DOMAIN containers :
        /\ containers[n].workflow = run.workflow_id
        /\ containers[n].container \in DOMAIN docker}

\* C34: within one exec call the container of a command is launched only
\* after the containers of the commands before it have exited, so at most
\* one container of the call is running and the registry holds at most one
\* record of the call.
C34_ContainersNeverOverlap ==
    run.pc # "idle" =>
        /\ \A k \in DOMAIN docker : \A j \in 1 .. k - 1 : Exited(j)
        /\ Cardinality(Running) <= 1
        /\ Cardinality(OwnRecords) <= 1

\* exec waits for its second container, which is running and recorded, after
\* the first one has exited and has been removed.
C34_Witness ==
    /\ run.pc = "wait"
    /\ run.registry
    /\ Len(docker) = 2
    /\ docker[1].status = "removed"
    /\ Running = {2}
    /\ Recorded(2)
    /\ Cardinality(OwnRecords) = 1

\* The entries of the logs before the last one.
Front(logs) == SubSeq(logs, 1, Len(logs) - 1)

\* The non-empty outputs of the containers 1 .. n, in launch order.
RECURSIVE OutputsUpTo(_, _)
OutputsUpTo(d, n) ==
    IF n = 0 THEN <<>>
    ELSE IF d[n].command.out # "" THEN Append(OutputsUpTo(d, n - 1), d[n].command.out)
    ELSE OutputsUpTo(d, n - 1)

\* C40: after a runtime failure at command k no container of a later command
\* exists, and the logs are the entries of the commands 1 .. k-1 in order,
\* the entry of command k if it was read, and the trace last.
C40_FailureStopsAndKeepsLogs ==
    (run.pc # "idle" /\ run.fault # None) =>
        /\ run.pc = "done"
        /\ Len(docker) <= run.i
        /\ Len(docker) >= run.i - 1
        /\ run.result.logs # <<>>
        /\ run.result.logs[Len(run.result.logs)] = StackTrace(run.fault)
        /\ \/ Front(run.result.logs) = OutputsUpTo(docker, run.i - 1)
           \/ /\ Len(docker) = run.i
              /\ docker[run.i].logged
              /\ Front(run.result.logs) = OutputsUpTo(docker, run.i)

\* The launch of the third container failed: the outputs of the first two
\* commands are kept ahead of the trace.
C40_Witness ==
    /\ run.pc = "done"
    /\ run.fault = "ImageNotFound"
    /\ run.i = 3
    /\ Len(docker) = 2
    /\ run.result.logs = <<"hello", "hello", StackTrace("ImageNotFound")>>

-----------------------------------------------------------------------------
(* revoke beside an exec that has launched and not yet recorded. *)

\* Container k of the exec call was running at the scan of the c-th revoke
\* call, made for the workflow of the exec call, and the registry held no
\* record of it: exec had launched it and had not yet inserted its record.
ScannedBeforeInsert(c, k) ==
    /\ c \in DOMAIN rev
    /\ run.pc # "idle"
    /\ run.registry
    /\ rev[c].workflow = run.workflow_id
    /\ k \in rev[c].running
    /\ \A n \in DOMAIN rev[c].records :
          rev[c].records[n] # [workflow |-> rev[c].workflow, container |-> k]

\* A step of the c-th revoke call.
RevokeStep(c) == rev[c].pc = "stopping" /\ rev'[c] # rev[c]

\* C39: a revoke whose scan runs after exec has launched a container of the
\* workflow and before exec has inserted its record issues no stop request
\* for that container; the wait of exec returns the exit code of the
\* command, and on exit code 0 exec goes on to the next command once it has
\* removed the container without a failure of the daemon.
C39_UnrecordedContainerRunsOn ==
    [][ \A c \in DOMAIN rev, k \in DOMAIN docker :
           (ScannedBeforeInsert(c, k) /\ k = run.container) =>
              /\ k \notin Stops(c)
              /\ RevokeStep(c) => docker'[k].stopped = docker[k].stopped
              /\ (run.pc = "wait" /\ run'.pc = "unregister" /\ ~docker[k].stopped) =>
                    /\ run'.r = docker[k].command.exit
                    /\ docker'[k].status = "exited"
              /\ (/\ run.pc = "remove" /\ run' # run /\ run'.fault = None
                  /\ run.r = 0 /\ run.i < Len(run.commands)) =>
                    /\ run'.pc = "launch"
                    /\ run'.i = run.i + 1 ]_vars

\* The revoke call scanned while the first container was launched and not
\* recorded, and has returned without a stop request; the container has
\* exited with 0 and exec has launched the second one.
C39_Witness ==
    /\ Len(rev) = 1
    /\ rev[1].pc = "done"
    /\ rev[1].workflow = "wf1"
    /\ rev[1].ids = <<>>
    /\ run.pc # "idle"
    /\ run.registry
    /\ run.workflow_id = "wf1"
    /\ 1 \in rev[1].running
    /\ Len(docker) = 2
    /\ ~docker[1].stopped
    /\ docker[1].command.exit = 0
    /\ docker[1].status \in {"exited", "removed"}
    /\ docker[2].status = "running"

-----------------------------------------------------------------------------
(* The bound paths at the launch of the first container. *)

\* exec launches the container of its first command in this step.
FirstLaunch == run.pc = "launch" /\ run.i = 1 /\ run'.pc = "insert"

\* The step is a call of bind.
BindStep == sandbox'.ncalls # sandbox.ncalls /\ sandbox'.last.op = "bind"

\* The paths of the bindings.
BoundPaths(bound) == {bound[k][1] : k \in DOMAIN bound}

\* C33 as stated: every bound path is an existing directory when exec
\* launches its first container; bind with create true makes a directory
\* that is missing, and bind with create false on a missing directory fails
\* and leaves the bindings as they were.
C33_BoundPathsExistAtLaunch ==
    [][ /\ FirstLaunch => BoundPaths(run.volumes) \subseteq sandbox.dirs
        /\ BindStep =>
              LET call == sandbox'.last
              IN  /\ (call.path \notin sandbox.dirs /\ call.create) =>
                        call.result.kind = "ok" /\ call.path \in sandbox'.dirs
                  /\ (call.path \notin sandbox.dirs /\ ~call.create) =>
                        /\ call.result.kind = "ValueError"
                        /\ sandbox'.volumes = sandbox.volumes
      ]_vars

\* C33 amended: as long as erase has not been called on the sandbox every
\* bound path is an existing directory, at the launch of the first container
\* of an exec call as at any other moment; after an erase a bound path in the
\* base directory can be missing at that launch.  bind with create true
\* makes a missing directory and binds it unless a file is at the path or
\* above it, where it fails and changes nothing; bind with create false on a
\* missing directory fails with ValueError and changes nothing.
C33_BoundPathsExistUnlessErased ==
    [][ /\ ~sandbox.erased => BoundPaths(sandbox.volumes) \subseteq sandbox.dirs
        /\ FirstLaunch =>
              /\ run.volumes = Volumes(sandbox.volumes)
              /\ \A path \in BoundPaths(run.volumes) :
                    \/ path \in sandbox.dirs
                    \/ sandbox.erased /\ IsBelow(path, sandbox.basedir)
        /\ BindStep =>
              LET call == sandbox'.last
                  same == sandbox'.volumes = sandbox.volumes /\ sandbox'.dirs = sandbox.dirs
              IN  /\ (call.path \notin sandbox.dirs /\ call.create) =>
                        IF Ancestors(call.path) \cap sandbox.files = {}
                        THEN /\ call.result.kind = "ok"
                             /\ call.path \in sandbox'.dirs
                             /\ Bound(sandbox'.volumes, call.path, call.target)
                        ELSE /\ call.result.kind \in {"FileExistsError", "NotADirectoryError"}
                             /\ same
                  /\ (call.path \notin sandbox.dirs /\ ~call.create) =>
                        call.result.kind = "ValueError" /\ same
      ]_vars

\* A folder in the base directory was bound, the sandbox erased, and the
\* exec call that followed has run its container with the missing folder
\* among the volumes.
C33_Witness ==
    /\ run.pc = "done"
    /\ run.call = 1
    /\ sandbox.erased
    /\ sandbox.last.op = "erase"
    /\ sandbox.last.execs = 0
    /\ Len(docker) = 1
    /\ \E path \in BoundPaths(docker[1].volumes) :
          path \notin sandbox.dirs /\ IsBelow(path, sandbox.basedir)

-----------------------------------------------------------------------------
(* The sandbox of an execute call. *)

\* The step deletes the base directory of the sandbox and is not a
\* cleanup() of the storage, which the caller runs after execute has left.
EraseStep ==
    /\ sandbox.basedir \in sandbox.dirs
    /\ sandbox'.basedir = sandbox.basedir
    /\ sandbox.basedir \notin sandbox'.dirs
    /\ exe'.cleanup = exe.cleanup

\* An execute call is under way and has not handled every declared output.
OutputsPending ==
    \/ exe.pc \in {"inputs", "prepare", "exec"}
    \/ exe.pc = "outputs" /\ exe.i <= Len(exe.task.outputs)

\* C31: the sandbox of an execute call is erased only in the step that
\* follows the handling of the last declared output, when every output has
\* been copied to its place in the storage; while an output is still to be
\* handled, and in a step that leaves execute with an error, the base
\* directory stays.
C31_EraseAfterOutputs ==
    [][ /\ EraseStep =>
              /\ exe.pc = "outputs"
              /\ exe.i = Len(exe.task.outputs) + 1
              /\ Len(exe.files) = Len(exe.task.outputs)
              /\ \A k \in DOMAIN exe.files : exe.files[k].resource \in sandbox.files
              /\ exe'.pc = "done"
              /\ exe'.result = Ok([files |-> exe.files])
        /\ OutputsPending =>
              /\ sandbox.basedir \in sandbox.dirs
              /\ sandbox'.basedir = sandbox.basedir => sandbox.basedir \in sandbox'.dirs
      ]_vars

\* The first call, of an operator with an output, failed at the output and
\* left its base directory; the second call, of an operator without
\* outputs, returned and erased its own.
C31_Witness ==
    /\ exe.pc = "done"
    /\ Len(exe.history) = 2
    /\ exe.history[1].outputs # <<>>
    /\ exe.history[1].exec = <<0>>
    /\ exe.history[1].result.kind = "AttributeError"
    /\ exe.history[1].kept
    /\ TmpDir(1) \in sandbox.dirs
    /\ exe.history[2].outputs = <<>>
    /\ exe.history[2].result.kind = "ok"
    /\ exe.history[2].basedir = TmpDir(2)
    /\ TmpDir(2) \notin sandbox.dirs

\* The call that has returned last.
Returned == exe.history[Len(exe.history)]

\* A copy of an input of the call failed.
InputFailed(h) == \E k \in DOMAIN h.copied : h.copied[k].result.kind # "ok"

\* C38: when an execute call of a known operator leaves, the base
\* directory made for the call is gone exactly if the call returns its
\* result; a call that failed at an input, at the substitution, for an
\* unsuccessful run or at an output has raised and has left the directory,
\* which stays until cleanup() of the storage is called.  A call whose
\* storage has no tmpdir() raises before a directory is made.
C38_ErasedOnlyOnSuccess ==
    (exe.pc = "done" /\ exe.at.known) =>
        /\ Returned.basedir # <<>> =>
              /\ Returned.basedir = TmpDir(exe.n)
              /\ exe.result.kind = "ok" <=> ~ Returned.kept
              /\ exe.cleanup.calls = 0 => (Returned.kept <=> TmpDir(exe.n) \in sandbox.dirs)
        /\ Returned.basedir = <<>> =>
              /\ Returned.storage = "FolderStore"
              /\ exe.result.kind = "AttributeError"
              /\ Returned.exec = <<>> /\ Returned.copied = <<>>
              /\ TmpDir(exe.n) \notin sandbox.dirs
        /\ InputFailed(Returned) => exe.result.kind # "ok"
        /\ (Returned.exec # <<>> /\ Returned.exec # <<0>>) => exe.result.kind = "Exception"
        /\ Returned.exec = <<>> => exe.result.kind # "ok"
        /\ exe.result.kind = "ok" => Len(exe.result.value.files) = Len(exe.task.outputs)

\* The run of the call was unsuccessful: execute has raised and the base
\* directory of the call is still there.
C38_Witness ==
    /\ exe.pc = "done"
    /\ exe.at.known
    /\ Returned.exec # <<>>
    /\ Returned.exec # <<0>>
    /\ exe.result.kind = "Exception"
    /\ Returned.kept
    /\ exe.cleanup.calls = 0
    /\ TmpDir(exe.n) \in sandbox.dirs

-----------------------------------------------------------------------------
(* get_parameter. *)

\* The value get_parameter starts from: the argument of the name of the
\* parameter, or the default.
Given ==
    IF par.parameter.name \in DOMAIN par.arguments THEN par.arguments[par.parameter.name]
    ELSE par.parameter.default

\* C32: the value substituted for a parameter comes from the argument of its
\* name if there is one and from the default otherwise; a value of the
\* declared type is taken as it is, every value returned that is not None is
\* of the declared type, and a call that fails fails with
\* TypeCoercionError.
C32_ParameterOfDeclaredType ==
    par.call # "none" =>
        /\ Given.t = "NoneType" =>
              par.result.kind = "ok" /\ par.result.value.t = "NoneType"
        /\ (Given.t # "NoneType" /\ par.result.kind = "ok") =>
              /\ IsInstance(par.result.value, par.parameter.type)
              /\ IsInstance(Given, par.parameter.type) => par.result.value = Given
        /\ par.result.kind # "ok" =>
              /\ par.result.kind = "TypeCoercionError"
              /\ ~ IsInstance(Given, par.parameter.type)
        /\ par.call = "substitute" => par.text = Ok(Str(par.result.value))
====
